---- MODULE Spec2Model ----
(***************************************************************************)
(* A model of the ICS-12 NEAR light client (crates/ics12-near): the        *)
(* client-state machine (initialise, verify_client_message,                *)
(* check_for_misbehaviour, update_state, update_state_on_misbehaviour,     *)
(* status) over the host store, and the header verifier.                   *)
(*                                                                         *)
(* Conventions.                                                            *)
(*  - Option<T> is a sequence of length <= 1: NoneOpt is None, Some(x) is  *)
(*    <<x>>.                                                               *)
(*  - An ibc Height (revision 0, revision_height h) is the integer h >= 1; *)
(*    Header::height() panics on inner_lite.height = 0, so headers carry   *)
(*    heights >= 1.                                                        *)
(*  - The handlers receive typed messages: the protobuf/Any envelope is    *)
(*    decoded by the caller side of each handler.                          *)
(*  - Hashes and signatures are symbolic: a hash is the (tagged) value it  *)
(*    commits to, a signature names its signing key and the signed         *)
(*    message.  Stakes are u128 in the source and far from overflow here.  *)
(***************************************************************************)
EXTENDS Integers, Sequences, FiniteSets, TLC

VARIABLES
    client_state,       \* Option<ClientState> at ClientStatePath(client_id)
    consensus_states,   \* height -> Option<ConsensusState>
    update_times,       \* height -> Option<host timestamp>
    update_heights,     \* height -> Option<host height>
    host_timestamp,     \* ctx.host_timestamp()
    host_height,        \* ctx.host_height()
    last                \* the last handler call: its input and what it returned

vars == <<client_state, consensus_states, update_times, update_heights,
          host_timestamp, host_height, last>>

(***************************************************************************)
(* Bounds of the model.                                                    *)
(***************************************************************************)
MaxHeight == 3
MaxApprovals == 3
MaxHostTime == 1

Heights == 1..MaxHeight
HostTimes == 0..MaxHostTime

NoneOpt == << >>
Some(x) == <<x>>
IsSome(o) == Len(o) > 0
IsNone(o) == Len(o) = 0
Unwrap(o) == o[1]

Max(a, b) == IF a >= b THEN a ELSE b
Min(a, b) == IF a <= b THEN a ELSE b

(***************************************************************************)
(* Block producers.                                                        *)
(***************************************************************************)
KeyOf == <<"k1", "k2", "k3", "k4">>
AccountOf == <<"a1", "a2", "a3", "a4">>

ValidatorStake(i, s) ==
    [account_id |-> AccountOf[i], public_key |-> KeyOf[i], stake |-> s]

\* the block producers of epoch e1 and of epoch e2
BpsA == <<ValidatorStake(1, 100), ValidatorStake(2, 100), ValidatorStake(3, 100)>>
BpsB == <<ValidatorStake(1, 200), ValidatorStake(2, 100)>>

Epochs == {"e1", "e2", "e3"}

(***************************************************************************)
(* Hashing.                                                                *)
(***************************************************************************)
Borsh(list) == [len |-> Len(list), items |-> list]
Sha256(bytes) == [digest_of |-> bytes]

CombineHash(h1, h2) == <<"(">> \o h1 \o <<",">> \o h2 \o <<")">>

RECURSIVE MerklizeLevel(_)
MerklizeLevel(arr) ==
    IF Len(arr) <= 1 THEN arr
    ELSE <<CombineHash(arr[1], arr[2])>> \o MerklizeLevel(SubSeq(arr, 3, Len(arr)))

RECURSIVE MerklizeRounds(_)
MerklizeRounds(arr) ==
    IF Len(arr) = 1 THEN arr[1] ELSE MerklizeRounds(MerklizeLevel(arr))

MerkleError == <<"merklize: empty input">>
Merklize(leaves) ==
    IF Len(leaves) = 0 THEN MerkleError ELSE MerklizeRounds(leaves)

(***************************************************************************)
(* Headers.  The inner_lite fields are flattened into the header; salt     *)
(* stands for the remaining hashed fields of the light client block        *)
(* (prev_block_hash, inner_rest_hash, outcome_root, block_merkle_root).    *)
(***************************************************************************)
CurrentBlockHash(h) ==
    [height |-> h.height, epoch_id |-> h.epoch_id, next_epoch_id |-> h.next_epoch_id,
     timestamp |-> h.timestamp, next_bp_hash |-> h.next_bp_hash,
     prev_state_root |-> h.prev_state_root, salt |-> h.salt]

ApprovalMessage(h) ==
    [endorsement |-> CurrentBlockHash(h), target_height |-> h.height + 2]

\* a verification that checks the signing key and not the signed message
SignatureVerifyKeyOnly(signature, data, public_key) ==
    signature.signer = public_key

\* Signature::verify
SignatureVerify(signature, data, public_key) ==
    IF public_key \notin {KeyOf[i] : i \in DOMAIN KeyOf} THEN FALSE
    ELSE IF signature.signer = "undecodable" THEN FALSE
    ELSE signature.signer = public_key /\ signature.message = data

\* the signature of key k over the approval message of h, one over another
\* message, and bytes that are no signature
GoodSignature(k, h) == [signer |-> k, message |-> ApprovalMessage(h)]
OtherSignature(k, h) ==
    [signer |-> k,
     message |-> [endorsement |-> CurrentBlockHash(h), target_height |-> h.height + 3]]
UndecodableSignature(h) == [signer |-> "undecodable", message |-> ApprovalMessage(h)]

ApprovalKinds == {"none", "good", "bad"}

ApprovalSlot(kind, i, h) ==
    IF kind = "none" THEN NoneOpt
    ELSE IF kind = "good" THEN Some(GoodSignature(KeyOf[i], h))
    ELSE Some(OtherSignature(KeyOf[i], h))

MkHeader(height, epoch_id, next_epoch_id, timestamp, next_bps, next_bp_hash, chunks, root, salt, kinds) ==
    LET base == [height |-> height, epoch_id |-> epoch_id,
                 next_epoch_id |-> next_epoch_id, timestamp |-> timestamp,
                 next_bps |-> next_bps, next_bp_hash |-> next_bp_hash,
                 prev_state_root_of_chunks |-> chunks, prev_state_root |-> root,
                 salt |-> salt]
    IN  [height |-> height, epoch_id |-> epoch_id,
         next_epoch_id |-> next_epoch_id, timestamp |-> timestamp,
         next_bps |-> next_bps, next_bp_hash |-> next_bp_hash,
         prev_state_root_of_chunks |-> chunks, prev_state_root |-> root,
         salt |-> salt,
         approvals_after_next |->
             [i \in 1..Len(kinds) |-> ApprovalSlot(kinds[i], i, base)]]

(***************************************************************************)
(* Consensus states.                                                       *)
(***************************************************************************)
\* a consensus state whose commitment root is the state root of the block
NewConsensusStateRootOfBlock(current_bps, header) ==
    [current_bps |-> current_bps, header |-> header,
     commitment_root |-> Borsh(<<header.prev_state_root>>)]

\* ConsensusState::new
NewConsensusState(current_bps, header) ==
    [current_bps |-> current_bps, header |-> header,
     commitment_root |-> Borsh(header.prev_state_root_of_chunks)]

\* a lookup that answers for the next epoch with the current block producers
GetBlockProducersOfCurrentEpochOnly(cs, epoch_id) ==
    IF epoch_id = cs.header.epoch_id THEN cs.current_bps
    ELSE IF epoch_id = cs.header.next_epoch_id THEN cs.current_bps
    ELSE NoneOpt

\* ConsensusState::get_block_producers_of
GetBlockProducersOf(cs, epoch_id) ==
    IF epoch_id = cs.header.epoch_id THEN cs.current_bps
    ELSE IF epoch_id = cs.header.next_epoch_id THEN cs.header.next_bps
    ELSE NoneOpt

(***************************************************************************)
(* verify_header (update_client.rs).                                       *)
(***************************************************************************)
Ok == "Ok"
ErrConsensusStateNotFound == "consensus state not found"
ErrTooOld == "Header is too old."
ErrInvalidEpoch == "Invalid epoch id in header."
ErrMissingNextBps == "Missing next block producers in header."
ErrMissingEpochBps == "Latest consensus state is invalid: missing epoch block producers"
ErrInvalidSignature == "Invalid signature in header"
ErrInsufficientStake == "Insufficient approved stake in header."
ErrInvalidNextBpHash == "Invalid hash of next block producers."
ErrInvalidMerkleRoot == "Invalid merkle root of previous state root of chunks."

\* the height check with < in place of <=
HeaderOlder(header, latest_header) == header.height < latest_header.height

\* header.height() <= latest_header.height()
HeaderTooOld(header, latest_header) == header.height <= latest_header.height

\* the epoch check against the header's own next_epoch_id
EpochUnknownOwnNext(header, latest_header) ==
    /\ header.epoch_id # latest_header.epoch_id
    /\ header.epoch_id # header.next_epoch_id

\* the epoch is neither the epoch nor the next epoch of the current head
EpochUnknown(header, latest_header) ==
    /\ header.epoch_id # latest_header.epoch_id
    /\ header.epoch_id # latest_header.next_epoch_id

\* the next_bps check against the current epoch of the head
NextBpsMissingCurrentEpoch(header, latest_header) ==
    /\ header.epoch_id = latest_header.epoch_id
    /\ IsNone(header.next_bps)

\* a header of the next epoch without next_bps
NextBpsMissing(header, latest_header) ==
    /\ header.epoch_id = latest_header.next_epoch_id
    /\ IsNone(header.next_bps)

\* The loop over approvals_after_next.iter().zip(epoch_block_producers.iter()),
\* from pair i on; acc holds total_stake, approved_stake and whether the loop
\* returned on an invalid signature.
RECURSIVE AggregateFrom(_, _, _, _, _)
AggregateFrom(approvals, bps, approval_message, i, acc) ==
    IF i > Min(Len(approvals), Len(bps)) THEN acc
    ELSE LET bp_stake == bps[i].stake
             total == acc.total_stake + bp_stake
         IN  IF IsNone(approvals[i])
             THEN AggregateFrom(approvals, bps, approval_message, i + 1,
                                [acc EXCEPT !.total_stake = total])
             ELSE IF ~SignatureVerify(Unwrap(approvals[i]), approval_message,
                                      bps[i].public_key)
             THEN [total_stake |-> total,
                   approved_stake |-> acc.approved_stake + bp_stake,
                   invalid |-> TRUE]
             ELSE AggregateFrom(approvals, bps, approval_message, i + 1,
                                [total_stake |-> total,
                                 approved_stake |-> acc.approved_stake + bp_stake,
                                 invalid |-> FALSE])

Aggregate(header, epoch_block_producers) ==
    AggregateFrom(header.approvals_after_next, epoch_block_producers,
                  ApprovalMessage(header), 1,
                  [total_stake |-> 0, approved_stake |-> 0, invalid |-> FALSE])

\* the stake check with < in place of <=
StakeBelowTwoThirds(approved_stake, total_stake) ==
    approved_stake * 3 < total_stake * 2

\* approved_stake * 3 <= total_stake * 2
StakeInsufficient(approved_stake, total_stake) ==
    approved_stake * 3 <= total_stake * 2

\* no check of the hash of next_bps
NextBpHashUnchecked(header) == FALSE

\* next_bps is Some and sha256(borsh(next_bps)) is not inner_lite.next_bp_hash
NextBpHashInvalid(header) ==
    /\ IsSome(header.next_bps)
    /\ Sha256(Borsh(Unwrap(header.next_bps))) # header.next_bp_hash

\* no check of prev_state_root
MerkleRootUnchecked(header) == FALSE

\* prev_state_root is not the merkle root of prev_state_root_of_chunks
MerkleRootInvalid(header) ==
    header.prev_state_root # Merklize(header.prev_state_root_of_chunks)

\* the checks of verify_header from the block-producer lookup on
VerifyApprovals(header, latest_consensus_state) ==
    LET bps == GetBlockProducersOf(latest_consensus_state, header.epoch_id)
    IN  IF IsNone(bps) THEN ErrMissingEpochBps
        ELSE LET agg == Aggregate(header, Unwrap(bps))
             IN  IF agg.invalid THEN ErrInvalidSignature
                 ELSE IF StakeInsufficient(agg.approved_stake, agg.total_stake)
                 THEN ErrInsufficientStake
                 ELSE IF NextBpHashInvalid(header) THEN ErrInvalidNextBpHash
                 ELSE IF MerkleRootInvalid(header) THEN ErrInvalidMerkleRoot
                 ELSE Ok

VerifyHeader(cs, css, header) ==
    IF IsNone(css[cs.latest_height]) THEN ErrConsensusStateNotFound
    ELSE LET latest_consensus_state == Unwrap(css[cs.latest_height])
             latest_header == latest_consensus_state.header
         IN  IF HeaderTooOld(header, latest_header) THEN ErrTooOld
             ELSE IF EpochUnknown(header, latest_header) THEN ErrInvalidEpoch
             ELSE IF NextBpsMissing(header, latest_header) THEN ErrMissingNextBps
             ELSE VerifyApprovals(header, latest_consensus_state)

(***************************************************************************)
(* The last handler call.                                                  *)
(***************************************************************************)
Call(op, msg, result, heights, writes) ==
    [op |-> op, msg |-> msg, result |-> result, heights |-> heights,
     writes |-> writes]

\* verify_client_message(UpdateClient)
VerifyClientMessage(header) ==
    /\ IsSome(client_state)
    /\ last' = Call("verify_client_message", Some(header),
                    VerifyHeader(Unwrap(client_state), consensus_states, header),
                    << >>, << >>)
    /\ UNCHANGED <<client_state, consensus_states, update_times, update_heights,
                   host_timestamp, host_height>>

(***************************************************************************)
(* The header verifier alone: a client whose latest consensus state is     *)
(* drawn from VerifyConsensusStates receives one header of VerifyHeaders.  *)
(***************************************************************************)
KindSeqs == UNION {[1..k -> ApprovalKinds] : k \in 0..MaxApprovals}

ChunkRoots == << <<"r1">>, <<"r2">> >>

\* (next_bps, next_bp_hash) of a header
NextBpsChoices ==
    { <<NoneOpt, Sha256(Borsh(BpsB))>>,
      <<Some(BpsB), Sha256(Borsh(BpsB))>>,
      <<Some(BpsB), Sha256(Borsh(<< >>))>>,
      <<Some(<< >>), Sha256(Borsh(<< >>))>> }

FollowingEpoch(e) == IF e = "e1" THEN "e2" ELSE "e3"

VerifyHeaders ==
    { MkHeader(h, e, FollowingEpoch(e), h, nb[1], nb[2], ChunkRoots, root,
               "s1", kinds) :
        h \in Heights, e \in Epochs, nb \in NextBpsChoices,
        root \in {Merklize(ChunkRoots), ChunkRoots[1]}, kinds \in KindSeqs }

TrustedHeight == MaxHeight - 1

VerifyConsensusStates ==
    { NewConsensusState(bps,
          MkHeader(TrustedHeight, "e1", ne[1], 1, ne[2], Sha256(Borsh(BpsB)),
                   ChunkRoots, Merklize(ChunkRoots), "s1", << >>)) :
        bps \in {NoneOpt, Some(BpsA), Some(<< >>)},
        ne \in { <<"e2", NoneOpt>>, <<"e2", Some(BpsB)>>, <<"e1", Some(BpsB)>> } }

NoStore == [h \in Heights |-> NoneOpt]

InitVerify ==
    \E cs \in VerifyConsensusStates, header \in VerifyHeaders :
        /\ client_state = Some([trusting_period |-> 1, frozen_height |-> NoneOpt,
                                latest_height |-> TrustedHeight,
                                latest_timestamp |-> cs.header.timestamp])
        /\ consensus_states = [NoStore EXCEPT ![TrustedHeight] = Some(cs)]
        /\ update_times = NoStore
        /\ update_heights = NoStore
        /\ host_timestamp = 0
        /\ host_height = 0
        /\ last = Call("submitted", Some(header), "", << >>, << >>)

NextVerify ==
    /\ last.op = "submitted"
    /\ VerifyClientMessage(Unwrap(last.msg))

SpecVerify == InitVerify /\ [][NextVerify]_vars

(***************************************************************************)
(* The client state (types/src/v1/client_state.rs).                        *)
(***************************************************************************)
\* Height::min(0), the frozen sentinel
FrozenSentinel == "Height::min(0)"

\* with_header that resets the custom fields, as zero_custom_fields does
WithHeaderZeroed(cs, header) ==
    [cs EXCEPT !.latest_height = Max(header.height, cs.latest_height),
               !.frozen_height = NoneOpt]

\* with_header that takes the header's height without the max
WithHeaderNoMax(cs, header) == [cs EXCEPT !.latest_height = header.height]

\* ClientState::with_header
WithHeader(cs, header) ==
    [cs EXCEPT !.latest_height = Max(header.height, cs.latest_height)]

\* ClientState::with_timestamp
WithTimestamp(cs, timestamp) == [cs EXCEPT !.latest_timestamp = timestamp]

\* with_frozen_height that also resets latest_timestamp
WithFrozenHeightResetTimestamp(cs, h) ==
    [cs EXCEPT !.frozen_height = Some(h), !.latest_timestamp = 0]

\* ClientState::with_frozen_height
WithFrozenHeight(cs, h) == [cs EXCEPT !.frozen_height = Some(h)]

\* ClientState::is_frozen
IsFrozen(cs) == IsSome(cs.frozen_height)

(***************************************************************************)
(* The host store (ValidationContext / ExecutionContext).                  *)
(***************************************************************************)
StoredHeights(css) == {k \in Heights : IsSome(css[k])}

MaxOf(S) == CHOOSE x \in S : \A y \in S : y <= x
MinOf(S) == CHOOSE x \in S : \A y \in S : x <= y

\* ctx.prev_consensus_state(client_id, height)
PrevConsensusState(css, height) ==
    LET below == {k \in StoredHeights(css) : k < height}
    IN  IF below = {} THEN NoneOpt ELSE css[MaxOf(below)]

\* ctx.next_consensus_state(client_id, height)
NextConsensusState(css, height) ==
    LET above == {k \in StoredHeights(css) : k > height}
    IN  IF above = {} THEN NoneOpt ELSE css[MinOf(above)]

(***************************************************************************)
(* status                                                                  *)
(***************************************************************************)
\* status that returns the failed lookup of the latest consensus state
StatusLookupError(cs, css, now) ==
    IF IsFrozen(cs) THEN "Frozen"
    ELSE IF IsNone(css[cs.latest_height]) THEN ErrConsensusStateNotFound
    ELSE IF /\ now >= Unwrap(css[cs.latest_height]).header.timestamp
            /\ now - Unwrap(css[cs.latest_height]).header.timestamp
                   > cs.trusting_period
    THEN "Expired"
    ELSE "Active"

\* status that expires the client when the trusting period has just elapsed
StatusExpiresAtPeriod(cs, css, now) ==
    IF IsFrozen(cs) THEN "Frozen"
    ELSE IF IsNone(css[cs.latest_height]) THEN "Expired"
    ELSE IF /\ now >= Unwrap(css[cs.latest_height]).header.timestamp
            /\ now - Unwrap(css[cs.latest_height]).header.timestamp
                   >= cs.trusting_period
    THEN "Expired"
    ELSE "Active"

Status(cs, css, now) ==
    IF IsFrozen(cs) THEN "Frozen"
    ELSE IF IsNone(css[cs.latest_height]) THEN "Expired"
    ELSE LET latest_consensus_state == Unwrap(css[cs.latest_height])
             timestamp == latest_consensus_state.header.timestamp
         IN  IF now >= timestamp /\ now - timestamp > cs.trusting_period
             THEN "Expired"
             ELSE "Active"

QueryStatus ==
    /\ IsSome(client_state)
    /\ last' = Call("status", NoneOpt,
                    Status(Unwrap(client_state), consensus_states, host_timestamp),
                    << >>, << >>)
    /\ UNCHANGED <<client_state, consensus_states, update_times, update_heights,
                   host_timestamp, host_height>>

(***************************************************************************)
(* check_for_misbehaviour (UpdateClient)                                   *)
(***************************************************************************)
\* check_for_misbehaviour_update_client with < in place of <= against the
\* previous consensus state
CheckForMisbehaviourStrictlyBefore(cs, css, header) ==
    IF IsSome(css[header.height])
    THEN CurrentBlockHash(Unwrap(css[header.height]).header) # CurrentBlockHash(header)
    ELSE LET maybe_prev_cs == PrevConsensusState(css, header.height)
             maybe_next_cs == NextConsensusState(css, header.height)
         IN  \/ /\ IsSome(maybe_prev_cs)
                /\ header.timestamp < Unwrap(maybe_prev_cs).header.timestamp
             \/ /\ header.height < cs.latest_height
                /\ IsSome(maybe_next_cs)
                /\ header.timestamp >= Unwrap(maybe_next_cs).header.timestamp

CheckForMisbehaviourUpdateClient(cs, css, header) ==
    IF IsSome(css[header.height])
    THEN CurrentBlockHash(Unwrap(css[header.height]).header) # CurrentBlockHash(header)
    ELSE LET maybe_prev_cs == PrevConsensusState(css, header.height)
             maybe_next_cs == NextConsensusState(css, header.height)
         IN  IF /\ IsSome(maybe_prev_cs)
                /\ header.timestamp <= Unwrap(maybe_prev_cs).header.timestamp
             THEN TRUE
             ELSE IF /\ header.height < cs.latest_height
                     /\ IsSome(maybe_next_cs)
                     /\ header.timestamp >= Unwrap(maybe_next_cs).header.timestamp
             THEN TRUE
             ELSE FALSE

BoolResult(b) == IF b THEN "true" ELSE "false"

CheckForMisbehaviour(header) ==
    /\ IsSome(client_state)
    /\ last' = Call("check_for_misbehaviour", Some(header),
                    BoolResult(CheckForMisbehaviourUpdateClient(
                        Unwrap(client_state), consensus_states, header)),
                    << >>, << >>)
    /\ UNCHANGED <<client_state, consensus_states, update_times, update_heights,
                   host_timestamp, host_height>>

(***************************************************************************)
(* initialise                                                              *)
(***************************************************************************)
\* TryFrom<RawConsensusState> for ConsensusState
ConsensusStateFromRaw(raw) ==
    NewConsensusState(
        IF Len(raw.current_bps) = 0 THEN NoneOpt ELSE Some(raw.current_bps),
        raw.header)

\* the borsh length of a Vec<CryptoHash> without its length prefix
BorshSizeWithoutPrefix(bytes) == 32 * bytes.len

\* the length of the borsh encoding of a Vec<CryptoHash>
BorshSize(bytes) == 4 + 32 * bytes.len

\* near_consensus_state.root().is_empty()
RootIsEmpty(cs) == BorshSize(cs.commitment_root) = 0

ErrEmptyRoot == "empty commitment root"

\* initialise that stores the consensus state under its header's height
InitialiseAtHeaderHeight(cs, raw) ==
    /\ IsNone(client_state)
    /\ client_state' = Some(cs)
    /\ consensus_states' =
           [consensus_states EXCEPT
               ![raw.header.height] = Some(ConsensusStateFromRaw(raw))]
    /\ last' = Call("initialise", Some(raw.header), Ok, << >>,
                    <<"store_client_state", "store_consensus_state">>)
    /\ UNCHANGED <<update_times, update_heights, host_timestamp, host_height>>

Initialise(cs, raw) ==
    /\ IsNone(client_state)
    /\ LET near_consensus_state == ConsensusStateFromRaw(raw)
       IN  IF RootIsEmpty(near_consensus_state)
           THEN /\ last' = Call("initialise", Some(raw.header), ErrEmptyRoot,
                                << >>, << >>)
                /\ UNCHANGED <<client_state, consensus_states>>
           ELSE /\ client_state' = Some(cs)
                /\ consensus_states' =
                       [consensus_states EXCEPT
                           ![cs.latest_height] = Some(near_consensus_state)]
                /\ last' = Call("initialise", Some(raw.header), Ok, << >>,
                                <<"store_client_state", "store_consensus_state">>)
    /\ UNCHANGED <<update_times, update_heights, host_timestamp, host_height>>

(***************************************************************************)
(* update_state                                                            *)
(***************************************************************************)
ErrStore == "host store error"

StoreWrites ==
    <<"store_update_time", "store_update_height", "store_consensus_state",
      "store_client_state">>

\* a lookup that never finds the consensus state of the header's height
NoExistingConsensusState(css, header) == NoneOpt

\* ctx.consensus_state(&path_at_header_height).ok()
MaybeExistingConsensusState(css, header) == css[header.height]

\* an update_state that builds every consensus state without block producers
NewConsensusStateForWithoutBps(css, header) ==
    NewConsensusState(NoneOpt, header)

\* the consensus state update_state builds for a header
NewConsensusStateFor(css, header) ==
    LET maybe_prev_cs == PrevConsensusState(css, header.height)
    IN  IF IsSome(maybe_prev_cs)
        THEN NewConsensusState(
                 GetBlockProducersOf(Unwrap(maybe_prev_cs), header.epoch_id), header)
        ELSE NewConsensusState(NoneOpt, header)

\* the client state update_state builds for a header
NewClientStateFor(cs, new_consensus_state, header) ==
    WithTimestamp(WithHeader(cs, header), new_consensus_state.header.timestamp)

\* an update_state that goes on with the later writes after a write failed
UpdateStateContinuesAfterFailure(header, fail) ==
    /\ IsSome(client_state)
    /\ UNCHANGED <<host_timestamp, host_height>>
    /\ IF IsSome(MaybeExistingConsensusState(consensus_states, header))
       THEN /\ last' = Call("update_state", Some(header), Ok, <<header.height>>,
                            << >>)
            /\ UNCHANGED <<client_state, consensus_states, update_times,
                           update_heights>>
       ELSE LET new_consensus_state == NewConsensusStateFor(consensus_states, header)
                new_client_state ==
                    NewClientStateFor(Unwrap(client_state), new_consensus_state, header)
                key == new_client_state.latest_height
            IN  /\ update_times' =
                       IF fail # 1
                       THEN [update_times EXCEPT ![key] = Some(host_timestamp)]
                       ELSE update_times
                /\ update_heights' =
                       IF fail # 2
                       THEN [update_heights EXCEPT ![key] = Some(host_height)]
                       ELSE update_heights
                /\ consensus_states' =
                       IF fail # 3
                       THEN [consensus_states EXCEPT ![key] = Some(new_consensus_state)]
                       ELSE consensus_states
                /\ client_state' =
                       IF fail # 4 THEN Some(new_client_state) ELSE client_state
                /\ last' = Call("update_state", Some(header),
                                IF fail = 0 THEN Ok ELSE ErrStore,
                                IF fail = 0 THEN <<header.height>> ELSE << >>,
                                SubSeq(StoreWrites, 1,
                                       IF fail = 0 THEN Len(StoreWrites) ELSE fail - 1))

\* update_state(header); fail is the store write that returns an error
\* (0: none does), the writes before it are persisted.
UpdateState(header, fail) ==
    /\ IsSome(client_state)
    /\ UNCHANGED <<host_timestamp, host_height>>
    /\ IF IsSome(MaybeExistingConsensusState(consensus_states, header))
       THEN /\ last' = Call("update_state", Some(header), Ok, <<header.height>>,
                            << >>)
            /\ UNCHANGED <<client_state, consensus_states, update_times,
                           update_heights>>
       ELSE LET new_consensus_state == NewConsensusStateFor(consensus_states, header)
                new_client_state ==
                    NewClientStateFor(Unwrap(client_state), new_consensus_state, header)
                key == new_client_state.latest_height
                done == IF fail = 0 THEN Len(StoreWrites) ELSE fail - 1
            IN  /\ update_times' =
                       IF done >= 1
                       THEN [update_times EXCEPT ![key] = Some(host_timestamp)]
                       ELSE update_times
                /\ update_heights' =
                       IF done >= 2
                       THEN [update_heights EXCEPT ![key] = Some(host_height)]
                       ELSE update_heights
                /\ consensus_states' =
                       IF done >= 3
                       THEN [consensus_states EXCEPT ![key] = Some(new_consensus_state)]
                       ELSE consensus_states
                /\ client_state' =
                       IF done >= 4 THEN Some(new_client_state) ELSE client_state
                /\ last' = Call("update_state", Some(header),
                                IF fail = 0 THEN Ok ELSE ErrStore,
                                IF fail = 0 THEN <<header.height>> ELSE << >>,
                                SubSeq(StoreWrites, 1, done))

(***************************************************************************)
(* update_state_on_misbehaviour                                            *)
(***************************************************************************)
UpdateStateOnMisbehaviour ==
    /\ IsSome(client_state)
    /\ client_state' = Some(WithFrozenHeight(Unwrap(client_state), FrozenSentinel))
    /\ last' = Call("update_state_on_misbehaviour", NoneOpt, Ok, << >>,
                    <<"store_client_state">>)
    /\ UNCHANGED <<consensus_states, update_times, update_heights, host_timestamp,
                   host_height>>

(***************************************************************************)
(* The host: its clock advances with its blocks.                           *)
(***************************************************************************)
HostAdvance ==
    /\ host_timestamp < MaxHostTime
    /\ host_timestamp' = host_timestamp + 1
    /\ host_height' = host_height + 1
    /\ UNCHANGED <<client_state, consensus_states, update_times, update_heights,
                   last>>

(***************************************************************************)
(* The messages relayers submit to the client.                             *)
(***************************************************************************)
AllGood == [i \in 1..MaxApprovals |-> "good"]

\* the headers relayers submit: two blocks of epoch e1 at every height, which
\* differ in their timestamp (and so in their block hash)
Headers ==
    { MkHeader(h, "e1", "e2", h + d, NoneOpt, Sha256(Borsh(BpsB)), ChunkRoots,
               Merklize(ChunkRoots), "s1", AllGood) :
        h \in Heights, d \in {0, 1} }

InitClientStates ==
    { [trusting_period |-> 1, frozen_height |-> NoneOpt, latest_height |-> h,
       latest_timestamp |-> 0] : h \in Heights }

InitConsensusStates ==
    { [current_bps |-> bps, header |-> header] :
        bps \in {<< >>, BpsA}, header \in Headers }

Init ==
    /\ client_state = NoneOpt
    /\ consensus_states = NoStore
    /\ update_times = NoStore
    /\ update_heights = NoStore
    /\ host_timestamp = 0
    /\ host_height = 0
    /\ last = Call("none", NoneOpt, "", << >>, << >>)

Next ==
    \/ \E cs \in InitClientStates, raw \in InitConsensusStates : Initialise(cs, raw)
    \/ \E header \in Headers : UpdateState(header, 0)
    \/ UpdateStateOnMisbehaviour
    \/ QueryStatus
    \/ HostAdvance

Spec == Init /\ [][Next]_vars

(***************************************************************************)
(* Properties of the client-state machine (Spec).                          *)
(***************************************************************************)
StoredFrozen == IsSome(client_state) /\ IsFrozen(Unwrap(client_state))

store == <<client_state, consensus_states, update_times, update_heights>>

\* C1: Frozen is permanent.  Over update_state and
\* update_state_on_misbehaviour calls on the stored client state, once
\* frozen_height is Some it is Some in every later state, and status returns
\* Frozen for every host time and every content of the consensus-state store.
C1_FrozenIsPermanent ==
    [][ /\ StoredFrozen => StoredFrozen'
        /\ StoredFrozen' =>
               \A now \in HostTimes : \A css \in {consensus_states', NoStore} :
                   Status(Unwrap(client_state'), css, now) = "Frozen" ]_vars

\* an update_state that wrote a new client state over a frozen one
C1_Witness ==
    /\ StoredFrozen
    /\ last.op = "update_state"
    /\ last.writes = StoreWrites

\* C2: latest_height never decreases.  The client state a successful
\* update_state(H) writes has latest_height = max(c.latest_height, H.height),
\* and the stored latest_height never decreases from one state to the next.
C2_LatestHeightNeverDecreases ==
    [][ /\ IsSome(client_state) =>
               /\ IsSome(client_state')
               /\ Unwrap(client_state').latest_height
                      >= Unwrap(client_state).latest_height
        /\ \A header \in Headers :
               (UpdateState(header, 0) /\ last'.writes = StoreWrites) =>
                   Unwrap(client_state').latest_height =
                       IF header.height > Unwrap(client_state).latest_height
                       THEN header.height
                       ELSE Unwrap(client_state).latest_height ]_vars

\* an update_state for a header below latest_height wrote the client state
C2_Witness ==
    /\ last.op = "update_state"
    /\ last.writes = StoreWrites
    /\ Unwrap(last.msg).height < Unwrap(client_state).latest_height

\* C3: update_state is idempotent.  When a consensus state exists at H.height,
\* update_state(H) performs no store write, leaves the store as it is and
\* returns [H.height].
C3_UpdateStateIdempotent ==
    [][ \A header \in Headers :
            (UpdateState(header, 0) /\ IsSome(consensus_states[header.height])) =>
                /\ store' = store
                /\ last'.result = Ok
                /\ last'.heights = <<header.height>>
                /\ last'.writes = << >> ]_vars

\* an update_state for a height that has a consensus state returned Ok
C3_Witness ==
    /\ last.op = "update_state"
    /\ last.result = Ok
    /\ last.writes = << >>
    /\ IsSome(consensus_states[Unwrap(last.msg).height])

(***************************************************************************)
(* Properties of verify_header (SpecVerify).                               *)
(***************************************************************************)
VerifyCalled == last.op = "verify_client_message"
V_Header == Unwrap(last.msg)
V_HasLatest == IsSome(consensus_states[Unwrap(client_state).latest_height])
V_Latest == Unwrap(consensus_states[Unwrap(client_state).latest_height])
V_LatestHeader == V_Latest.header
V_Result == last.result

\* the block producers of the header's epoch, as the latest consensus state
\* knows them
V_EpochBps == GetBlockProducersOf(V_Latest, V_Header.epoch_id)

\* the producers that are paired with an approval slot, those whose slot is
\* present, and those whose slot holds their signature of the approval message
PairedSlots(header, bps) ==
    {i \in 1..Len(bps) : i <= Len(header.approvals_after_next)}
SignedSlots(header, bps) ==
    {i \in PairedSlots(header, bps) : IsSome(header.approvals_after_next[i])}
ValidSlots(header, bps) ==
    {i \in SignedSlots(header, bps) :
        Unwrap(header.approvals_after_next[i]) =
            GoodSignature(bps[i].public_key, header)}

RECURSIVE StakeOf(_, _)
StakeOf(bps, slots) ==
    IF slots = {} THEN 0
    ELSE LET i == CHOOSE x \in slots : TRUE
         IN  bps[i].stake + StakeOf(bps, slots \ {i})

V_TooOld == V_Header.height <= V_LatestHeader.height
V_EpochKnown ==
    V_Header.epoch_id \in {V_LatestHeader.epoch_id, V_LatestHeader.next_epoch_id}

\* verify_header came to the stake check: it returned the error of that
\* check, the error of a later one, or Ok
V_ReachedStakeCheck ==
    V_Result \in {ErrInsufficientStake, ErrInvalidNextBpHash, ErrInvalidMerkleRoot, Ok}

\* verify_header came to the check of the hash of next_bps
V_ReachedNextBpHashCheck ==
    V_Result \in {ErrInvalidNextBpHash, ErrInvalidMerkleRoot, Ok}

\* C4: the supermajority is strict.  A header that comes to the stake check
\* is rejected with 'Insufficient approved stake in header.' exactly when
\* approved_stake * 3 <= total_stake * 2, equality included; it passes the
\* check only when approved_stake * 3 > total_stake * 2.
C4_SupermajorityIsStrict ==
    (VerifyCalled /\ V_ReachedStakeCheck) =>
        LET bps == Unwrap(V_EpochBps)
            approved_stake == StakeOf(bps, SignedSlots(V_Header, bps))
            total_stake == StakeOf(bps, PairedSlots(V_Header, bps))
        IN  /\ (approved_stake * 3 <= total_stake * 2)
                   <=> (V_Result = ErrInsufficientStake)
            /\ V_Result = Ok => approved_stake * 3 > total_stake * 2

\* stakes [100, 100, 100] with approvals [Some, Some, None] are rejected
C4_Witness ==
    /\ VerifyCalled
    /\ V_Result = ErrInsufficientStake
    /\ LET bps == Unwrap(V_EpochBps)
       IN  /\ Len(bps) = 3
           /\ SignedSlots(V_Header, bps) = {1, 2}
           /\ 3 * StakeOf(bps, SignedSlots(V_Header, bps))
                  = 2 * StakeOf(bps, PairedSlots(V_Header, bps))

\* C5: for every accepted header, the valid signatures come from more than 2/3
\* of the stake of all block producers of the header's epoch, whatever the
\* length of approvals_after_next.
C5_ApprovedOverTwoThirdsOfEpochStake ==
    (VerifyCalled /\ V_Result = Ok) =>
        LET bps == Unwrap(V_EpochBps)
        IN  3 * StakeOf(bps, ValidSlots(V_Header, bps))
                > 2 * StakeOf(bps, 1..Len(bps))

\* C6: signature aggregation.  approvals_after_next[i] is paired with
\* epoch_bps[i] for i up to the shorter length; a present slot whose signature
\* does not verify makes the header rejected whatever the other stake; without
\* one the stake check compares the stake of the present slots with the stake
\* of all paired producers; slots beyond the producer list play no part.
C6_SignatureAggregation ==
    (VerifyCalled /\ V_HasLatest /\ IsSome(V_EpochBps)) =>
        LET bps == Unwrap(V_EpochBps)
            paired == PairedSlots(V_Header, bps)
            signed == SignedSlots(V_Header, bps)
            valid == ValidSlots(V_Header, bps)
        IN  /\ signed # valid => V_Result # Ok
            /\ V_Result \notin {ErrTooOld, ErrInvalidEpoch, ErrMissingNextBps} =>
                   /\ (signed # valid) <=> (V_Result = ErrInvalidSignature)
                   /\ signed = valid =>
                          ((V_Result = ErrInsufficientStake)
                              <=> (3 * StakeOf(bps, signed) <= 2 * StakeOf(bps, paired)))

\* a header is accepted whose approvals hold, beyond the producer list, a
\* signature that does not verify
C6_Witness ==
    /\ VerifyCalled
    /\ V_Result = Ok
    /\ LET bps == Unwrap(V_EpochBps)
           approvals == V_Header.approvals_after_next
       IN  /\ Len(approvals) > Len(bps)
           /\ \E i \in (Len(bps) + 1)..Len(approvals) :
                  /\ IsSome(approvals[i])
                  /\ ~SignatureVerify(Unwrap(approvals[i]), ApprovalMessage(V_Header),
                                      KeyOf[i])

\* C7: height monotonicity.  A header whose height is <= the height of the
\* header in the consensus state at latest_height is rejected with 'Header is
\* too old.'; an accepted header has a strictly greater height.
C7_HeightMonotonicity ==
    (VerifyCalled /\ V_HasLatest) =>
        /\ V_Header.height <= V_LatestHeader.height => V_Result = ErrTooOld
        /\ V_Result = Ok => V_Header.height > V_LatestHeader.height

\* a header at the height of the latest header is rejected as too old
C7_Witness ==
    /\ VerifyCalled
    /\ V_Header.height = V_LatestHeader.height
    /\ V_Result = ErrTooOld

\* C8 as stated: every header whose epoch is neither the epoch nor the next
\* epoch of the latest header is rejected with 'Invalid epoch id in header.'.
C8_UnknownEpochRejectedAsInvalidEpoch ==
    (VerifyCalled /\ V_HasLatest /\ ~V_EpochKnown) => V_Result = ErrInvalidEpoch

\* C8: epoch continuity.  A header whose epoch is neither the epoch nor the
\* next epoch of the latest header is rejected: with 'Header is too old.' when
\* its height is <= the latest header's, with 'Invalid epoch id in header.'
\* otherwise, and that error is returned for no other header; an accepted
\* header is of the current or the next epoch of the header it was verified
\* against.
C8_EpochContinuity ==
    (VerifyCalled /\ V_HasLatest) =>
        /\ ~V_EpochKnown =>
               V_Result = IF V_TooOld THEN ErrTooOld ELSE ErrInvalidEpoch
        /\ V_Result = ErrInvalidEpoch => ~V_EpochKnown
        /\ V_Result = Ok => V_EpochKnown

\* a header above the latest one is rejected for its epoch
C8_Witness ==
    /\ VerifyCalled
    /\ V_Header.height > V_LatestHeader.height
    /\ ~V_EpochKnown
    /\ V_Result = ErrInvalidEpoch

\* C9 as stated: every header of the next epoch without next_bps is rejected
\* with 'Missing next block producers in header.'.
C9_NextEpochWithoutBpsRejectedAsMissing ==
    (/\ VerifyCalled /\ V_HasLatest
     /\ V_Header.epoch_id = V_LatestHeader.next_epoch_id
     /\ IsNone(V_Header.next_bps)) => V_Result = ErrMissingNextBps

\* C9: epoch rotation requires the next block producers.  A header of the next
\* epoch without next_bps is rejected: with 'Header is too old.' when its
\* height is <= the latest header's, with 'Missing next block producers in
\* header.' otherwise, whatever the block-producer lookup, the signatures and
\* the stake would give; that error is returned for no other header.
C9_RotationRequiresNextBps ==
    (VerifyCalled /\ V_HasLatest) =>
        LET rotation_without_bps ==
                /\ V_Header.epoch_id = V_LatestHeader.next_epoch_id
                /\ IsNone(V_Header.next_bps)
        IN  /\ rotation_without_bps =>
                   V_Result = IF V_TooOld THEN ErrTooOld ELSE ErrMissingNextBps
            /\ V_Result = ErrMissingNextBps => rotation_without_bps

\* the rejection comes where the block-producer lookup would fail and no slot
\* is signed
C9_Witness ==
    /\ VerifyCalled
    /\ V_Result = ErrMissingNextBps
    /\ IsNone(V_EpochBps)
    /\ \A i \in DOMAIN V_Header.approvals_after_next :
           IsNone(V_Header.approvals_after_next[i])

\* the hash of the next block producers a header carries differs from
\* inner_lite.next_bp_hash
V_NextBpHashDiffers ==
    /\ IsSome(V_Header.next_bps)
    /\ Sha256(Borsh(Unwrap(V_Header.next_bps))) # V_Header.next_bp_hash

\* C10 as stated: an accepted header with next_bps = Some(list) has the hash of
\* list in next_bp_hash, a header with Some(list) whose hash differs is
\* rejected with 'Invalid hash of next block producers.', and a header without
\* next_bps is never rejected by this check.
C10_HashMismatchRejectedAsInvalidHash ==
    (VerifyCalled /\ V_HasLatest) =>
        /\ V_Result = Ok => ~V_NextBpHashDiffers
        /\ V_NextBpHashDiffers => V_Result = ErrInvalidNextBpHash
        /\ IsNone(V_Header.next_bps) => V_Result # ErrInvalidNextBpHash

\* C10: the next-BP commitment.  An accepted header with next_bps = Some(list)
\* has the hash of list in next_bp_hash; a header with Some(list) whose hash
\* differs is rejected, with 'Invalid hash of next block producers.' when it
\* passes the checks before this one (height, epoch, presence of next_bps,
\* block-producer lookup, signatures, stake) and with the error of the first
\* of them that fails otherwise; a header without next_bps is never rejected
\* by this check.
C10_NextBpCommitment ==
    (VerifyCalled /\ V_HasLatest) =>
        /\ V_Result = Ok => ~V_NextBpHashDiffers
        /\ V_NextBpHashDiffers =>
               /\ V_Result # Ok
               /\ V_ReachedNextBpHashCheck => V_Result = ErrInvalidNextBpHash
        /\ V_Result = ErrInvalidNextBpHash => V_NextBpHashDiffers

\* a header with enough approved stake is rejected for the hash of next_bps
C10_Witness ==
    /\ VerifyCalled
    /\ V_Result = ErrInvalidNextBpHash
    /\ IsSome(V_Header.next_bps)
    /\ Len(Unwrap(V_Header.next_bps)) > 0

(***************************************************************************)
(* The relayed client: a created client receives headers.  update_state    *)
(* is called with the header verify_client_message has just accepted;      *)
(* check_for_misbehaviour takes any header, and                            *)
(* update_state_on_misbehaviour follows a check that returned true.        *)
(***************************************************************************)
\* a header of the pool's shape whose prev_state_root is not the merkle root
\* of its chunks
BadRootHeader ==
    MkHeader(MaxHeight, "e1", "e2", MaxHeight, NoneOpt, Sha256(Borsh(BpsB)),
             ChunkRoots, ChunkRoots[1], "s1", AllGood)

RelayHeaders == Headers \cup {BadRootHeader}

LastAccepted(header) ==
    /\ last.op = "verify_client_message"
    /\ last.result = Ok
    /\ last.msg = Some(header)

LastReportedMisbehaviour ==
    /\ last.op = "check_for_misbehaviour"
    /\ last.result = BoolResult(TRUE)

UpdateStateAccepted ==
    \E header \in RelayHeaders : LastAccepted(header) /\ UpdateState(header, 0)

UpdateStateOnReportedMisbehaviour ==
    LastReportedMisbehaviour /\ UpdateStateOnMisbehaviour

NextRelay ==
    \/ \E cs \in InitClientStates, raw \in InitConsensusStates : Initialise(cs, raw)
    \/ \E header \in RelayHeaders : VerifyClientMessage(header)
    \/ UpdateStateAccepted
    \/ \E header \in RelayHeaders : CheckForMisbehaviour(header)
    \/ UpdateStateOnReportedMisbehaviour
    \/ QueryStatus

SpecRelay == Init /\ [][NextRelay]_vars

\* merklize(H.prev_state_root_of_chunks) == H.inner_lite.prev_state_root
HeaderInvariant(header) ==
    Merklize(header.prev_state_root_of_chunks) = header.prev_state_root

\* C11: Merkle commitment.  Every header accepted by verify_header satisfies
\* merklize(H.prev_state_root_of_chunks) == H.inner_lite.prev_state_root, and
\* the consensus state written by an update_state that follows a successful
\* verify_header holds that header, which satisfies the Header invariant.
C11_MerkleCommitment ==
    [][ /\ (last'.op = "verify_client_message" /\ last'.result = Ok) =>
               HeaderInvariant(Unwrap(last'.msg))
        /\ \A header \in RelayHeaders :
               (/\ LastAccepted(header)
                /\ UpdateState(header, 0)
                /\ last'.writes = StoreWrites) =>
                   LET written ==
                           Unwrap(consensus_states'[Unwrap(client_state').latest_height])
                   IN  /\ written.header = header
                       /\ HeaderInvariant(written.header) ]_vars

\* an accepted header has been written into a consensus state
C11_Witness ==
    /\ last.op = "update_state"
    /\ last.writes = StoreWrites
    /\ Unwrap(consensus_states[Unwrap(client_state).latest_height]).header
           = Unwrap(last.msg)
    /\ HeaderInvariant(Unwrap(last.msg))

(***************************************************************************)
(* More properties of the client-state machine (Spec).                     *)
(***************************************************************************)
\* C12: update_state is permitted only from Active.  When the status of the
\* client is Frozen or Expired, update_state(H) writes no consensus state and
\* does not change the stored client state.
C12_UpdateStateOnlyFromActive ==
    [][ \A header \in Headers :
            (/\ UpdateState(header, 0)
             /\ Status(Unwrap(client_state), consensus_states, host_timestamp)
                    # "Active") =>
                /\ consensus_states' = consensus_states
                /\ client_state' = client_state ]_vars

\* C13: update_state_on_misbehaviour freezes unconditionally and changes
\* nothing else.  It stores the client state with frozen_height =
\* Some(Height::min(0)); trusting_period, latest_height and latest_timestamp
\* are unchanged and no consensus state, update time or update height is
\* written or removed.
C13_FreezeChangesNothingElse ==
    [][ UpdateStateOnMisbehaviour =>
            /\ client_state' =
                   Some([trusting_period |-> Unwrap(client_state).trusting_period,
                         frozen_height |-> Some(FrozenSentinel),
                         latest_height |-> Unwrap(client_state).latest_height,
                         latest_timestamp |-> Unwrap(client_state).latest_timestamp])
            /\ consensus_states' = consensus_states
            /\ update_times' = update_times
            /\ update_heights' = update_heights ]_vars

\* a client that has been updated is frozen with its store as it was
C13_Witness ==
    /\ last.op = "update_state_on_misbehaviour"
    /\ StoredFrozen
    /\ Unwrap(client_state).latest_timestamp > 0
    /\ \E h \in Heights : IsSome(update_times[h]) /\ IsSome(update_heights[h])

(***************************************************************************)
(* Properties of the relayed client (SpecRelay).                           *)
(***************************************************************************)
\* update_state has just stored the consensus state of the accepted header H1
\* (in SpecRelay update_state is only called with accepted headers)
JustAcceptedAndStored(H1) ==
    /\ last.op = "update_state"
    /\ last.msg = Some(H1)
    /\ last.writes = StoreWrites

\* C14: a same-height fork freezes the client.  After a header H1 at height h
\* has been accepted and stored, check_for_misbehaviour (UpdateClient) on a
\* header H2 at height h with a different current_block_hash returns true, and
\* after the update_state_on_misbehaviour that follows the status is Frozen.
C14_SameHeightForkFreezes ==
    [][ /\ \A H1, H2 \in RelayHeaders :
               (/\ JustAcceptedAndStored(H1)
                /\ CheckForMisbehaviour(H2)
                /\ H1.height = H2.height
                /\ CurrentBlockHash(H1) # CurrentBlockHash(H2)) =>
                   last'.result = "true"
        /\ UpdateStateOnReportedMisbehaviour =>
               Status(Unwrap(client_state'), consensus_states', host_timestamp')
                   = "Frozen" ]_vars

(***************************************************************************)
(* check_for_misbehaviour (SubmitMisbehaviour): a created client receives  *)
(* one Misbehaviour message.                                               *)
(***************************************************************************)
\* Misbehaviour::new
Misbehaviour(header1, header2) == [header1 |-> header1, header2 |-> header2]

\* check_for_misbehaviour_misbehaviour
CheckForMisbehaviourMisbehaviour(misbehaviour) ==
    LET header_1 == misbehaviour.header1
        header_2 == misbehaviour.header2
    IN  IF header_1.height = header_2.height
        THEN CurrentBlockHash(header_1) # CurrentBlockHash(header_2)
        ELSE header_1.timestamp <= header_2.timestamp

\* check_for_misbehaviour(SubmitMisbehaviour)
CheckForSubmittedMisbehaviour(misbehaviour) ==
    /\ IsSome(client_state)
    /\ last' = Call("check_for_misbehaviour", Some(misbehaviour),
                    BoolResult(CheckForMisbehaviourMisbehaviour(misbehaviour)),
                    << >>, << >>)
    /\ UNCHANGED <<client_state, consensus_states, update_times, update_heights,
                   host_timestamp, host_height>>

Misbehaviours ==
    { Misbehaviour(header1, header2) : header1 \in RelayHeaders,
                                       header2 \in RelayHeaders }

InitMisbehaviour ==
    \E cs \in InitClientStates, raw \in InitConsensusStates,
       misbehaviour \in Misbehaviours :
        /\ client_state = Some(cs)
        /\ consensus_states =
               [NoStore EXCEPT ![cs.latest_height] = Some(ConsensusStateFromRaw(raw))]
        /\ update_times = NoStore
        /\ update_heights = NoStore
        /\ host_timestamp = 0
        /\ host_height = 0
        /\ last = Call("submitted", Some(misbehaviour), "", << >>, << >>)

CheckSubmitted ==
    /\ last.op = "submitted"
    /\ CheckForSubmittedMisbehaviour(Unwrap(last.msg))

NextMisbehaviour ==
    \/ CheckSubmitted
    \/ UpdateStateOnReportedMisbehaviour

SpecMisbehaviour == InitMisbehaviour /\ [][NextMisbehaviour]_vars

\* C15: check_for_misbehaviour on a Misbehaviour message returns true exactly
\* when (a) the two heights are equal and the two current_block_hash values
\* differ, or (b) header1.height > header2.height and header1.timestamp <=
\* header2.timestamp; in particular two headers with header1.height <
\* header2.height and header1.timestamp <= header2.timestamp, and two
\* identical headers, are not reported.
C15_MisbehaviourCases ==
    last.op = "check_for_misbehaviour" =>
        LET header1 == Unwrap(last.msg).header1
            header2 == Unwrap(last.msg).header2
        IN  (last.result = "true") <=>
                \/ /\ header1.height = header2.height
                   /\ CurrentBlockHash(header1) # CurrentBlockHash(header2)
                \/ /\ header1.height # header2.height
                   /\ header1.height > header2.height
                   /\ header1.timestamp <= header2.timestamp

\* the heights of the stored consensus states next below and next above h
HighestBelow(h) ==
    {k \in Heights : /\ k < h
                     /\ IsSome(consensus_states[k])
                     /\ \A j \in Heights : (k < j /\ j < h) => IsNone(consensus_states[j])}
LowestAbove(h) ==
    {k \in Heights : /\ k > h
                     /\ IsSome(consensus_states[k])
                     /\ \A j \in Heights : (h < j /\ j < k) => IsNone(consensus_states[j])}

NotAfterPrevious(H) ==
    \E k \in HighestBelow(H.height) :
        Unwrap(consensus_states[k]).header.timestamp >= H.timestamp
NotBeforeNext(H) ==
    \E k \in LowestAbove(H.height) :
        Unwrap(consensus_states[k]).header.timestamp <= H.timestamp

CreateTimes == 0..(MaxHeight + MaxHostTime + 1)

InitCreate ==
    /\ client_state = NoneOpt
    /\ consensus_states = NoStore
    /\ update_times = NoStore
    /\ update_heights = NoStore
    /\ host_timestamp \in CreateTimes
    /\ host_height = 0
    /\ last = Call("none", NoneOpt, "", << >>, << >>)

NextCreate ==
    \/ \E cs \in InitClientStates, raw \in InitConsensusStates : Initialise(cs, raw)
    \/ QueryStatus

SpecCreate == InitCreate /\ [][NextCreate]_vars

\* C17: the client is Active right after creation.  For every client state
\* and initial consensus state accepted by initialise, the first status query
\* after initialise returns Active.
C17_ActiveAfterInitialise ==
    [][ (QueryStatus /\ last.op = "initialise" /\ last.result = Ok) =>
            last'.result = "Active" ]_vars

\* C18: initialise rejects a consensus state whose commitment_root is empty
\* with 'empty commitment root' and then writes nothing; otherwise it stores
\* the client state, stores cs0 under the key client_state.latest_height, and
\* nothing else.
C18_InitialiseWrites ==
    [][ \A cs \in InitClientStates, raw \in InitConsensusStates :
            Initialise(cs, raw) =>
                LET cs0 == ConsensusStateFromRaw(raw)
                IN  IF RootIsEmpty(cs0)
                    THEN /\ last'.result = ErrEmptyRoot
                         /\ store' = store
                    ELSE /\ last'.result = Ok
                         /\ client_state' = Some(cs)
                         /\ \A h \in Heights :
                                consensus_states'[h] =
                                    IF h = cs.latest_height THEN Some(cs0)
                                    ELSE consensus_states[h]
                         /\ update_times' = update_times
                         /\ update_heights' = update_heights ]_vars

\* a client is created whose latest_height is not the height of the header in
\* its consensus state
C18_Witness ==
    /\ last.op = "initialise"
    /\ last.result = Ok
    /\ StoredHeights(consensus_states) = {Unwrap(client_state).latest_height}
    /\ Unwrap(last.msg).height # Unwrap(client_state).latest_height
    /\ Unwrap(consensus_states[Unwrap(client_state).latest_height]).header
           = Unwrap(last.msg)

(***************************************************************************)
(* status alone: a client state, the host's answer to the lookup of the    *)
(* consensus state at latest_height, and a host time.                      *)
(***************************************************************************)
TrustingPeriods == 0..(MaxHostTime + 1)

StatusClientStates ==
    { [trusting_period |-> tp, frozen_height |-> fh, latest_height |-> h,
       latest_timestamp |-> 0] :
        tp \in TrustingPeriods, fh \in {NoneOpt, Some(FrozenSentinel)},
        h \in Heights }

\* ctx.consensus_state(latest_height): Err, or a stored consensus state
LatestLookups ==
    {NoneOpt} \cup {Some(NewConsensusState(Some(BpsA), header)) : header \in Headers}

InitStatus ==
    \E cs \in StatusClientStates, found \in LatestLookups :
        /\ client_state = Some(cs)
        /\ consensus_states = [NoStore EXCEPT ![cs.latest_height] = found]
        /\ update_times = NoStore
        /\ update_heights = NoStore
        /\ host_timestamp \in CreateTimes
        /\ host_height = 0
        /\ last = Call("none", NoneOpt, "", << >>, << >>)

NextStatus == last.op = "none" /\ QueryStatus

SpecStatus == InitStatus /\ [][NextStatus]_vars

S_Client == Unwrap(client_state)
S_Latest == consensus_states[S_Client.latest_height]

\* C19: status reports a missing latest consensus state as Expired.  For a
\* non-frozen client with no consensus state at latest_height, status returns
\* Ok(Expired) whatever the host time; the failed lookup is never returned as
\* an error.
C19_MissingLatestIsExpired ==
    (last.op = "status" /\ ~IsFrozen(S_Client) /\ IsNone(S_Latest)) =>
        last.result = "Expired"

\* status of a client without a latest consensus state, at host time 0
C19_Witness ==
    /\ last.op = "status"
    /\ last.result = "Expired"
    /\ ~IsFrozen(S_Client)
    /\ IsNone(S_Latest)
    /\ host_timestamp = 0

\* C20: the expiry rule of status.  For a non-frozen client with a consensus
\* state cs at latest_height, status returns Expired iff now >= cs.timestamp
\* and now - cs.timestamp > trusting_period; it returns Active when now -
\* cs.timestamp = trusting_period and when now < cs.timestamp.
C20_ExpiryRule ==
    (last.op = "status" /\ ~IsFrozen(S_Client) /\ IsSome(S_Latest)) =>
        LET now == host_timestamp
            timestamp == Unwrap(S_Latest).header.timestamp
            trusting_period == S_Client.trusting_period
        IN  /\ (last.result = "Expired")
                   <=> (now >= timestamp /\ now - timestamp > trusting_period)
            /\ last.result \in {"Expired", "Active"}
            /\ now - timestamp = trusting_period => last.result = "Active"
            /\ now < timestamp => last.result = "Active"

\* the trusting period has just elapsed and the client is Active
C20_Witness ==
    /\ last.op = "status"
    /\ last.result = "Active"
    /\ ~IsFrozen(S_Client)
    /\ IsSome(S_Latest)
    /\ S_Client.trusting_period > 0
    /\ host_timestamp - Unwrap(S_Latest).header.timestamp = S_Client.trusting_period

(***************************************************************************)
(* Client upgrades.  A created client, active or frozen, receives upgrade  *)
(* requests carrying an upgraded client state and consensus state.         *)
(***************************************************************************)
ErrUpgradeNotAvailable == "This function is NOT available in NEAR client."

\* verify_upgrade_client
VerifyUpgradeClient(upgraded_client_state, upgraded_consensus_state) ==
    /\ IsSome(client_state)
    /\ last' = Call("verify_upgrade_client",
                    Some(<<upgraded_client_state, upgraded_consensus_state>>),
                    ErrUpgradeNotAvailable, << >>, << >>)
    /\ UNCHANGED <<client_state, consensus_states, update_times, update_heights,
                   host_timestamp, host_height>>

\* an update_state_on_upgrade that commits the upgraded states
UpdateStateOnUpgradeCommits(upgraded_client_state, upgraded_consensus_state) ==
    /\ IsSome(client_state)
    /\ client_state' = Some(upgraded_client_state)
    /\ consensus_states' =
           [consensus_states EXCEPT
               ![upgraded_client_state.latest_height] =
                   Some(ConsensusStateFromRaw(upgraded_consensus_state))]
    /\ last' = Call("update_state_on_upgrade",
                    Some(<<upgraded_client_state, upgraded_consensus_state>>),
                    Ok, <<upgraded_client_state.latest_height>>,
                    <<"store_client_state", "store_consensus_state">>)
    /\ UNCHANGED <<update_times, update_heights, host_timestamp, host_height>>

\* update_state_on_upgrade
UpdateStateOnUpgrade(upgraded_client_state, upgraded_consensus_state) ==
    /\ IsSome(client_state)
    /\ last' = Call("update_state_on_upgrade",
                    Some(<<upgraded_client_state, upgraded_consensus_state>>),
                    ErrUpgradeNotAvailable, << >>, << >>)
    /\ UNCHANGED <<client_state, consensus_states, update_times, update_heights,
                   host_timestamp, host_height>>

VerifyUpgrade ==
    \E ucs \in InitClientStates, ucons \in InitConsensusStates :
        VerifyUpgradeClient(ucs, ucons)

ExecuteUpgrade ==
    \E ucs \in InitClientStates, ucons \in InitConsensusStates :
        UpdateStateOnUpgrade(ucs, ucons)

NextUpgrade ==
    \/ \E cs \in InitClientStates, raw \in InitConsensusStates : Initialise(cs, raw)
    \/ UpdateStateOnMisbehaviour
    \/ VerifyUpgrade
    \/ ExecuteUpgrade

SpecUpgrade == Init /\ [][NextUpgrade]_vars

BpsFromHighestBelow(H) ==
    IF HighestBelow(H.height) = {} THEN NoneOpt
    ELSE GetBlockProducersOf(
             Unwrap(consensus_states[MaxOf(HighestBelow(H.height))]), H.epoch_id)

\* C22: effect of a non-duplicate update.  When verify_header(H) has passed
\* and no consensus state exists at H.height, update_state(H) writes under
\* the key H.height a consensus state whose header is H and whose current_bps
\* is what the stored consensus state with the greatest height below H.height
\* gives for H.epoch_id (None when there is no such state), records the
\* update time and the update height for H.height, and stores a client state
\* with latest_height = max(latest_height, H.height).
C22_EffectOfNonDuplicateUpdate ==
    [][ \A H \in RelayHeaders :
            (/\ LastAccepted(H)
             /\ UpdateState(H, 0)
             /\ IsNone(consensus_states[H.height])) =>
                /\ consensus_states'[H.height] =
                       Some(NewConsensusState(BpsFromHighestBelow(H), H))
                /\ update_times'[H.height] = Some(host_timestamp)
                /\ update_heights'[H.height] = Some(host_height)
                /\ Unwrap(client_state').latest_height =
                       Max(Unwrap(client_state).latest_height, H.height) ]_vars

\* C23: consensus states are append-only.  Over initialise and update_state
\* calls a consensus state stored under a key h is never replaced by a
\* different value and never removed, and an update_state whose header height
\* already has a stored consensus state writes nothing.
C23_ConsensusStatesAppendOnly ==
    [][ /\ \A h \in Heights :
               IsSome(consensus_states[h]) =>
                   consensus_states'[h] = consensus_states[h]
        /\ \A H \in RelayHeaders :
               (UpdateState(H, 0) /\ IsSome(consensus_states[H.height])) =>
                   /\ last'.writes = << >>
                   /\ store' = store ]_vars

(***************************************************************************)
(* Store failures.  The host verifies a header, checks it for misbehaviour *)
(* and calls update_state; any one of the store writes of update_state may *)
(* return an error, the writes before it stay in the store, and relayers   *)
(* submit the header again.                                                *)
(***************************************************************************)
Failures == 0..Len(StoreWrites)

\* the host's update pipeline: verify_client_message passed and
\* check_for_misbehaviour returned false
PassedChecks(header) ==
    /\ LastAccepted(header)
    /\ ~CheckForMisbehaviourUpdateClient(Unwrap(client_state), consensus_states,
                                         header)

UpdateStateWithFailures ==
    \E header \in Headers, fail \in Failures :
        PassedChecks(header) /\ UpdateState(header, fail)

\* a trusted header the creator of a client supplies with a timestamp later
\* than that of every header relayed afterwards
LateTrustedHeader ==
    MkHeader(1, "e1", "e2", MaxHeight + 2, NoneOpt, Sha256(Borsh(BpsB)), ChunkRoots,
             Merklize(ChunkRoots), "s1", AllGood)

\* a trusted header of a block with one chunk
OneChunkTrustedHeader ==
    MkHeader(1, "e1", "e2", 1, NoneOpt, Sha256(Borsh(BpsB)), <<ChunkRoots[1]>>,
             Merklize(<<ChunkRoots[1]>>), "s1", AllGood)

RetryConsensusStates ==
    InitConsensusStates
        \cup {[current_bps |-> BpsA, header |-> header] :
                 header \in {LateTrustedHeader, OneChunkTrustedHeader}}

NextRetry ==
    \/ \E cs \in InitClientStates, raw \in RetryConsensusStates : Initialise(cs, raw)
    \/ \E header \in Headers : VerifyClientMessage(header)
    \/ UpdateStateWithFailures
    \/ HostAdvance

SpecRetry == Init /\ [][NextRetry]_vars

\* the number of store writes update_state completes when write fail errors
Completed(fail) == IF fail = 0 THEN Len(StoreWrites) ELSE fail - 1

\* C24: write order inside one update_state that is not a no-op.  The store
\* writes happen in the order store_update_time, store_update_height,
\* store_consensus_state, store_client_state, each at most once; when one of
\* them fails the error is returned, the writes before it have been made and
\* none of the later ones is.
C24_WriteOrder ==
    [][ \A header \in Headers, fail \in Failures :
            (/\ PassedChecks(header)
             /\ UpdateState(header, fail)
             /\ IsNone(consensus_states[header.height])) =>
                LET key == Max(Unwrap(client_state).latest_height, header.height)
                IN  /\ last'.writes =
                           SubSeq(<<"store_update_time", "store_update_height",
                                    "store_consensus_state", "store_client_state">>,
                                  1, Completed(fail))
                    /\ last'.result = IF fail = 0 THEN Ok ELSE ErrStore
                    /\ IF Completed(fail) >= 1
                       THEN update_times'[key] = Some(host_timestamp)
                       ELSE update_times' = update_times
                    /\ IF Completed(fail) >= 2
                       THEN update_heights'[key] = Some(host_height)
                       ELSE update_heights' = update_heights
                    /\ IF Completed(fail) >= 3
                       THEN /\ IsSome(consensus_states'[key])
                            /\ Unwrap(consensus_states'[key]).header = header
                       ELSE consensus_states' = consensus_states
                    /\ IF Completed(fail) >= 4
                       THEN Unwrap(client_state').latest_timestamp = header.timestamp
                       ELSE client_state' = client_state ]_vars

\* an update_state failed at store_consensus_state after it had recorded the
\* update time and the update height at a later host time than the stored ones
C24_Witness ==
    /\ last.op = "update_state"
    /\ last.result = ErrStore
    /\ last.writes = <<"store_update_time", "store_update_height">>
    /\ IsNone(consensus_states[Unwrap(last.msg).height])
    /\ update_times[Unwrap(last.msg).height] = Some(host_timestamp)
    /\ update_heights[Unwrap(last.msg).height] = Some(host_height)
    /\ host_timestamp > 0
    /\ Unwrap(client_state).latest_timestamp # Unwrap(last.msg).timestamp

\* update_state(H) has just failed at one of its store writes
JustFailed(H) ==
    /\ last.op = "update_state"
    /\ last.result = ErrStore
    /\ last.msg = Some(H)

\* C25: retry after partial failure.  When update_state(H) failed at one of
\* its four store writes and the writes before it were persisted, the same
\* header H is still accepted on the resulting store: verify_header(H)
\* passes, check_for_misbehaviour(H) returns false and update_state(H)
\* returns Ok([H.height]).
C25_RetryAfterPartialFailure ==
    [][ \A H \in Headers :
            /\ JustFailed(H)' =>
                   /\ VerifyHeader(Unwrap(client_state'), consensus_states', H) = Ok
                   /\ ~CheckForMisbehaviourUpdateClient(Unwrap(client_state'),
                                                        consensus_states', H)
            /\ (PassedChecks(H) /\ UpdateState(H, 0)) =>
                   /\ last'.result = Ok
                   /\ last'.heights = <<H.height>> ]_vars

(***************************************************************************)
(* Wire formats: the conversions between the domain types, their raw       *)
(* protobuf messages and Any.                                              *)
(***************************************************************************)
\* the outcomes of a conversion: a value, an error, or a panic
Return(v) == [error |-> "", value |-> Some(v)]
Fail(e) == [error |-> e, value |-> NoneOpt]
Panic == [error |-> "panic: not yet implemented", value |-> NoneOpt]
Returned(r) == r.error = ""

NEAR_CLIENT_STATE_TYPE_URL == "/ibc.lightclients.near.v1.ClientState"
NEAR_CONSENSUS_STATE_TYPE_URL == "/ibc.lightclients.near.v1.ConsensusState"
NEAR_HEADER_TYPE_URL == "/ibc.lightclients.near.v1.Header"
NEAR_MISBEHAVIOUR_TYPE_URL == "/ibc.lightclients.near.v1.Misbehaviour"

\* From<Height> for RawHeight
RawHeightFrom(h) == [revision_number |-> 0, revision_height |-> h]

\* From<Height> for RawHeight, of the frozen height: the only one the client
\* writes is Height::min(0), the height (0, 1)
RawFrozenHeightFrom(h) == [revision_number |-> 0, revision_height |-> 1]

\* Height::try_from(RawHeight).ok(): a height of 0 is no Height
HeightTryFrom(raw) ==
    IF raw.revision_height = 0 THEN NoneOpt ELSE Some(raw.revision_height)

\* ClientState::new_without_validation
NewWithoutValidation(trusting_period, latest_height, latest_timestamp) ==
    [trusting_period |-> trusting_period, frozen_height |-> NoneOpt,
     latest_height |-> latest_height, latest_timestamp |-> latest_timestamp]

\* a decoding that keeps the frozen height of the raw client state
ClientStateTryFromRawKeepsFrozen(value) ==
    IF IsNone(value.trusting_period) THEN Fail("MissingTrustingPeriod")
    ELSE IF \/ IsNone(value.latest_height)
            \/ IsNone(HeightTryFrom(Unwrap(value.latest_height)))
         THEN Fail("MissingLatestHeight")
    ELSE Return([NewWithoutValidation(Unwrap(value.trusting_period),
                     Unwrap(HeightTryFrom(Unwrap(value.latest_height))),
                     value.latest_timestamp)
                 EXCEPT !.frozen_height =
                     IF IsSome(value.frozen_height)
                     THEN HeightTryFrom(Unwrap(value.frozen_height))
                     ELSE NoneOpt])

\* TryFrom<RawClientState> for ClientState
ClientStateTryFromRaw(value) ==
    IF IsNone(value.trusting_period) THEN Fail("MissingTrustingPeriod")
    ELSE IF \/ IsNone(value.latest_height)
            \/ IsNone(HeightTryFrom(Unwrap(value.latest_height)))
         THEN Fail("MissingLatestHeight")
    ELSE IF /\ IsSome(value.frozen_height)
            /\ IsSome(HeightTryFrom(Unwrap(value.frozen_height)))
         THEN Fail("FrozenHeightNotAllowed")
    ELSE Return(NewWithoutValidation(Unwrap(value.trusting_period),
                    Unwrap(HeightTryFrom(Unwrap(value.latest_height))),
                    value.latest_timestamp))

\* From<ClientState> for RawClientState
RawClientStateFrom(value) ==
    [trusting_period |-> Some(value.trusting_period),
     frozen_height |->
         IF IsSome(value.frozen_height)
         THEN Some(RawFrozenHeightFrom(Unwrap(value.frozen_height)))
         ELSE NoneOpt,
     latest_height |-> Some(RawHeightFrom(value.latest_height)),
     latest_timestamp |-> value.latest_timestamp]

\* From<ClientState> for Any, TryFrom<Any> for ClientState
AnyFromClientState(client_state_value) ==
    [type_url |-> NEAR_CLIENT_STATE_TYPE_URL,
     value |-> RawClientStateFrom(client_state_value)]
ClientStateTryFromAny(raw) ==
    IF raw.type_url = NEAR_CLIENT_STATE_TYPE_URL
    THEN ClientStateTryFromRaw(raw.value)
    ELSE Fail("UnknownClientStateType")

\* borsh::to_vec of a value, kept as the value it encodes
ToVec(x) == [borsh |-> x]

\* BorshDeserialize for PublicKey, for Signature: todo!()
PublicKeyDeserialize(bytes) == Panic
SignatureDeserialize(bytes) == Panic

\* ValidatorStakeView::try_from_slice: the public key of the view is
\* deserialized
ValidatorStakeViewTryFromSlice(bytes) == PublicKeyDeserialize(bytes.borsh.public_key)

\* the fields of a header that make its light client block
LightClientBlockOf(header) ==
    [f \in (DOMAIN header) \ {"prev_state_root_of_chunks"} |-> header[f]]

\* LightClientBlock::try_from_slice: every block producer of next_bps and
\* every present approval is deserialized
LightClientBlockTryFromSlice(bytes) ==
    LET block == bytes.borsh
    IN  IF IsSome(block.next_bps) /\ Len(Unwrap(block.next_bps)) > 0
        THEN ValidatorStakeViewTryFromSlice(ToVec(Unwrap(block.next_bps)[1]))
        ELSE IF \E i \in DOMAIN block.approvals_after_next :
                    IsSome(block.approvals_after_next[i])
        THEN SignatureDeserialize(bytes)
        ELSE Return(block)

\* From<Header> for RawHeader
RawHeaderFrom(value) ==
    [light_client_block |-> ToVec(LightClientBlockOf(value)),
     prev_state_root_of_chunks |->
         [i \in DOMAIN value.prev_state_root_of_chunks |->
             [raw_data |-> ToVec(value.prev_state_root_of_chunks[i])]]]

\* TryFrom<RawHeader> for Header
HeaderTryFromRaw(value) ==
    LET light_client_block == LightClientBlockTryFromSlice(value.light_client_block)
        chunks == [i \in DOMAIN value.prev_state_root_of_chunks |->
                      value.prev_state_root_of_chunks[i].raw_data.borsh]
    IN  IF ~Returned(light_client_block) THEN light_client_block
        ELSE Return([f \in DOMAIN Unwrap(light_client_block.value)
                           \cup {"prev_state_root_of_chunks"} |->
                        IF f = "prev_state_root_of_chunks" THEN chunks
                        ELSE Unwrap(light_client_block.value)[f]])

\* From<Header> for Any, TryFrom<Any> for Header
AnyFromHeader(header) ==
    [type_url |-> NEAR_HEADER_TYPE_URL, value |-> RawHeaderFrom(header)]
HeaderTryFromAny(raw) ==
    IF raw.type_url = NEAR_HEADER_TYPE_URL
    THEN HeaderTryFromRaw(raw.value)
    ELSE Fail("UnknownHeaderType")

\* From<ConsensusState> for RawConsensusState
RawConsensusStateFrom(value) ==
    [current_bps |->
         IF IsNone(value.current_bps) THEN << >>
         ELSE [i \in DOMAIN Unwrap(value.current_bps) |->
                  [raw_data |-> ToVec(Unwrap(value.current_bps)[i])]],
     header |-> Some(RawHeaderFrom(value.header))]

\* TryFrom<RawConsensusState> for ConsensusState, from the encoded block
\* producers on
ConsensusStateTryFromRaw(value) ==
    IF Len(value.current_bps) > 0
    THEN ValidatorStakeViewTryFromSlice(value.current_bps[1].raw_data)
    ELSE IF IsNone(value.header) THEN Fail("MissingHeader")
    ELSE LET header == HeaderTryFromRaw(Unwrap(value.header))
         IN  IF ~Returned(header) THEN header
             ELSE Return(ConsensusStateFromRaw(
                      [current_bps |-> << >>, header |-> Unwrap(header.value)]))

\* From<ConsensusState> for Any, TryFrom<Any> for ConsensusState
AnyFromConsensusState(consensus_state) ==
    [type_url |-> NEAR_CONSENSUS_STATE_TYPE_URL,
     value |-> RawConsensusStateFrom(consensus_state)]
ConsensusStateTryFromAny(raw) ==
    IF raw.type_url = NEAR_CONSENSUS_STATE_TYPE_URL
    THEN ConsensusStateTryFromRaw(raw.value)
    ELSE Fail("UnknownConsensusStateType")

\* From<Misbehaviour> for RawMisbehaviour
RawMisbehaviourFrom(value) ==
    [client_id |-> value.client_id,
     header_1 |-> Some(RawHeaderFrom(value.header1)),
     header_2 |-> Some(RawHeaderFrom(value.header2))]

\* TryFrom<RawMisbehaviour> for Misbehaviour
MisbehaviourTryFromRaw(raw) ==
    IF raw.client_id = "" THEN Fail("InvalidRawClientId")
    ELSE IF IsNone(raw.header_1) THEN Fail("InvalidRawMisbehaviour")
    ELSE LET header1 == HeaderTryFromRaw(Unwrap(raw.header_1))
         IN  IF ~Returned(header1) THEN header1
             ELSE IF IsNone(raw.header_2) THEN Fail("InvalidRawMisbehaviour")
             ELSE LET header2 == HeaderTryFromRaw(Unwrap(raw.header_2))
                  IN  IF ~Returned(header2) THEN header2
                      ELSE Return([client_id |-> raw.client_id,
                                   header1 |-> Unwrap(header1.value),
                                   header2 |-> Unwrap(header2.value)])

\* From<Misbehaviour> for Any, TryFrom<Any> for Misbehaviour
AnyFromMisbehaviour(misbehaviour) ==
    [type_url |-> NEAR_MISBEHAVIOUR_TYPE_URL,
     value |-> RawMisbehaviourFrom(misbehaviour)]
MisbehaviourTryFromAny(raw) ==
    IF raw.type_url = NEAR_MISBEHAVIOUR_TYPE_URL
    THEN MisbehaviourTryFromRaw(raw.value)
    ELSE Fail("UnknownMisbehaviourType")

(***************************************************************************)
(* The codecs alone: one value of a domain type is encoded as Any and      *)
(* decoded again, or one raw client state is decoded.                      *)
(***************************************************************************)
NoApprovals == [i \in 1..MaxApprovals |-> "none"]

\* a header of a block without chunks
NoChunksHeader ==
    MkHeader(1, "e1", "e2", 1, NoneOpt, Sha256(Borsh(BpsB)), << >>,
             Merklize(<< >>), "s1", << >>)

CodecHeaders ==
    { MkHeader(h, "e1", "e2", h, nb[1], nb[2], ChunkRoots, Merklize(ChunkRoots),
               "s1", kinds) :
        h \in Heights, nb \in NextBpsChoices,
        kinds \in {<< >>, NoApprovals, AllGood} }
    \cup {NoChunksHeader}

\* client states as created and as update_state_on_misbehaviour leaves them
CodecClientStates ==
    InitClientStates \cup {WithFrozenHeight(c, FrozenSentinel) : c \in InitClientStates}

CodecConsensusStates ==
    { NewConsensusState(bps, header) :
        bps \in {NoneOpt, Some(<< >>), Some(BpsA)}, header \in CodecHeaders }

CodecMisbehaviours ==
    { [client_id |-> "07-near-0", header1 |-> h1, header2 |-> h2] :
        h1 \in CodecHeaders, h2 \in CodecHeaders }

RawHeights == {[revision_number |-> 0, revision_height |-> n] : n \in 0..MaxHeight}

RawClientStates ==
    { [trusting_period |-> tp, frozen_height |-> fh, latest_height |-> lh,
       latest_timestamp |-> 0] :
        tp \in {NoneOpt, Some(1)},
        fh \in {NoneOpt} \cup {Some(r) : r \in RawHeights},
        lh \in {NoneOpt} \cup {Some(r) : r \in RawHeights} }

Typed(kind, value) == [kind |-> kind, value |-> value]

Submitted(kind, value) == last = Call("input", Some(Typed(kind, value)), "", << >>, << >>)

InitCodec ==
    /\ client_state = NoneOpt
    /\ consensus_states = NoStore
    /\ update_times = NoStore
    /\ update_heights = NoStore
    /\ host_timestamp = 0
    /\ host_height = 0
    /\ \/ \E c \in CodecClientStates : Submitted("ClientState", c)
       \/ \E c \in CodecConsensusStates : Submitted("ConsensusState", c)
       \/ \E h \in CodecHeaders : Submitted("Header", h)
       \/ \E m \in CodecMisbehaviours : Submitted("Misbehaviour", m)
       \/ \E r \in RawClientStates : Submitted("RawClientState", r)

Input(kind) == last.op = "input" /\ Unwrap(last.msg).kind = kind

Converted(op, result) ==
    /\ last' = Call(op, last.msg, result, << >>, << >>)
    /\ UNCHANGED <<client_state, consensus_states, update_times, update_heights,
                   host_timestamp, host_height>>

RoundTripClientState ==
    /\ Input("ClientState")
    /\ Converted("round_trip",
           ClientStateTryFromAny(AnyFromClientState(Unwrap(last.msg).value)))

RoundTripConsensusState ==
    /\ Input("ConsensusState")
    /\ Converted("round_trip",
           ConsensusStateTryFromAny(AnyFromConsensusState(Unwrap(last.msg).value)))

RoundTripHeader ==
    /\ Input("Header")
    /\ Converted("round_trip", HeaderTryFromAny(AnyFromHeader(Unwrap(last.msg).value)))

RoundTripMisbehaviour ==
    /\ Input("Misbehaviour")
    /\ Converted("round_trip",
           MisbehaviourTryFromAny(AnyFromMisbehaviour(Unwrap(last.msg).value)))

DecodeRawClientState ==
    /\ Input("RawClientState")
    /\ Converted("decode", ClientStateTryFromRaw(Unwrap(last.msg).value))

\* ClientStateCommon::verify_consensus_state
VerifyConsensusStateOfAny(consensus_state) ==
    LET near_consensus_state == ConsensusStateTryFromAny(consensus_state)
    IN  IF ~Returned(near_consensus_state) THEN near_consensus_state
        ELSE IF RootIsEmpty(Unwrap(near_consensus_state.value))
        THEN Fail(ErrEmptyRoot)
        ELSE Return(<< >>)

VerifyDecodedConsensusState ==
    /\ Input("ConsensusState")
    /\ Converted("verify_consensus_state",
           VerifyConsensusStateOfAny(AnyFromConsensusState(Unwrap(last.msg).value)))

NextCodec ==
    \/ RoundTripClientState
    \/ RoundTripConsensusState
    \/ RoundTripHeader
    \/ RoundTripMisbehaviour
    \/ DecodeRawClientState
    \/ VerifyDecodedConsensusState

SpecCodec == InitCodec /\ [][NextCodec]_vars

\* C26: codec round-trip.  For every ClientState (a frozen one included),
\* every ConsensusState (one whose current_bps is Some of an empty list
\* included), every Header (with present approval signatures or next_bps
\* included) and every Misbehaviour, decoding the Any encoding of the value
\* returns an equal value.
C26_CodecRoundTrip ==
    last.op = "round_trip" => last.result = Return(Unwrap(last.msg).value)

\* the raw client state that was decoded, and whether its trusting period
\* and latest height are there and valid
D_Raw == Unwrap(last.msg).value
D_WellFormed ==
    /\ IsSome(D_Raw.trusting_period)
    /\ IsSome(D_Raw.latest_height)
    /\ Unwrap(D_Raw.latest_height).revision_height # 0
D_ConcreteFrozenHeight ==
    /\ IsSome(D_Raw.frozen_height)
    /\ Unwrap(D_Raw.frozen_height).revision_height # 0

Leaf(key, value) == [node |-> "Leaf", key |-> key, value_hash |-> Sha256(value)]
Extension(key, child) == [node |-> "Extension", key |-> key, child |-> Sha256(child)]
\* bytes that are no trie node
Garbage == [node |-> "undecodable", key |-> << >>, child |-> "", value_hash |-> ""]

\* RawTrieNodeWithSize::decode(proof).is_ok()
NodeDecodes(bytes) == bytes.node # "undecodable"

IsPrefixOf(p, k) == Len(p) <= Len(k) /\ SubSeq(k, 1, Len(p)) = p
StripPrefix(p, k) == SubSeq(k, Len(p) + 1, Len(k))

RECURSIVE WalkToValue(_, _, _, _, _)
\* the walk of verify_state_proof from node i with the key that remains
WalkToValue(nodes, i, remaining_key, expected_hash, value) ==
    IF i > Len(nodes) THEN FALSE
    ELSE IF Sha256(nodes[i]) # expected_hash THEN FALSE
    ELSE IF nodes[i].node = "Leaf"
         THEN /\ i = Len(nodes)
              /\ remaining_key = nodes[i].key
              /\ Sha256(value) = nodes[i].value_hash
    ELSE /\ IsPrefixOf(nodes[i].key, remaining_key)
         /\ WalkToValue(nodes, i + 1, StripPrefix(nodes[i].key, remaining_key),
                        nodes[i].child, value)

RECURSIVE WalkToDivergence(_, _, _, _)
\* the walk of verify_not_in_state from node i with the key that remains
WalkToDivergence(nodes, i, remaining_key, expected_hash) ==
    IF i > Len(nodes) THEN FALSE
    ELSE IF Sha256(nodes[i]) # expected_hash THEN FALSE
    ELSE IF nodes[i].node = "Leaf"
         THEN i = Len(nodes) /\ remaining_key # nodes[i].key
    ELSE IF ~IsPrefixOf(nodes[i].key, remaining_key) THEN i = Len(nodes)
    ELSE WalkToDivergence(nodes, i + 1, StripPrefix(nodes[i].key, remaining_key),
                          nodes[i].child)

ErrTrie == "trie::Error"

\* trie::verify_state_proof
VerifyStateProof(key, nodes, value, root_hash) ==
    IF WalkToValue(nodes, 1, key, root_hash, value) THEN Ok ELSE ErrTrie

\* trie::verify_not_in_state
VerifyNotInState(key, nodes, root_hash) ==
    IF WalkToDivergence(nodes, 1, key, root_hash) THEN Ok ELSE ErrTrie

ErrCommitmentProofDecodingFailed == "CommitmentProofDecodingFailed"
ErrEmptyMerkleProof == "EmptyMerkleProof"
ErrVerificationFailure == "VerificationFailure"

\* a check of the chunk roots that lets every first node pass
RootHashAlwaysListed(prev_state_root_of_chunks, root_hash) == FALSE

\* !prev_state_root_of_chunks.0.contains(&root_hash)
RootHashNotListed(prev_state_root_of_chunks, root_hash) ==
    \A i \in DOMAIN prev_state_root_of_chunks :
        prev_state_root_of_chunks[i] # root_hash

\* the checks verify_membership and verify_non_membership make before the
\* walk; Ok when all of them pass
CheckProofAgainstRoot(proof, root) ==
    IF IsNone(proof) THEN ErrCommitmentProofDecodingFailed
    ELSE IF Len(Unwrap(proof)) = 0 THEN ErrEmptyMerkleProof
    ELSE IF IsNone(root) THEN ErrCommitmentProofDecodingFailed
    ELSE IF RootHashNotListed(Unwrap(root), Sha256(Unwrap(proof)[1]))
         THEN ErrVerificationFailure
    ELSE IF \E i \in DOMAIN Unwrap(proof) : ~NodeDecodes(Unwrap(proof)[i])
         THEN ErrCommitmentProofDecodingFailed
    ELSE Ok

\* verify_membership; the key is the prefix followed by the path
VerifyMembershipResult(proof, root, key, value) ==
    IF CheckProofAgainstRoot(proof, root) # Ok THEN CheckProofAgainstRoot(proof, root)
    ELSE VerifyStateProof(key, Unwrap(proof), value, Sha256(Unwrap(proof)[1]))

\* verify_non_membership
VerifyNonMembershipResult(proof, root, key) ==
    IF CheckProofAgainstRoot(proof, root) # Ok THEN CheckProofAgainstRoot(proof, root)
    ELSE VerifyNotInState(key, Unwrap(proof), Sha256(Unwrap(proof)[1]))

(***************************************************************************)
(* The proof verifier alone: one query of a key, and for membership a      *)
(* value, with a proof against a commitment root.                          *)
(***************************************************************************)
MaxProofLen == 2

ProofKeys == {<<1>>, <<1, 2>>, <<2>>}
ProofValues == {"v1", "v2"}

ProofNodes ==
    {Leaf(<<1, 2>>, "v1"), Leaf(<<2>>, "v1"), Extension(<<1>>, Leaf(<<2>>, "v1")),
     Garbage}

Proofs ==
    {NoneOpt} \cup {Some(nodes) : nodes \in UNION {[1..n -> ProofNodes] : n \in 0..MaxProofLen}}

CommitmentRoots ==
    {NoneOpt, Some(<< >>), Some(<<Sha256(Leaf(<<1, 2>>, "v1"))>>),
     Some(<<Sha256(Leaf(<<2, 2>>, "v2")),
            Sha256(Extension(<<1>>, Leaf(<<2>>, "v1")))>>),
     Some(<<Sha256(Garbage)>>)}

Queries ==
    { [proof |-> proof, root |-> root, key |-> key, value |-> value] :
        proof \in Proofs, root \in CommitmentRoots, key \in ProofKeys,
        value \in ProofValues }

InitProof ==
    /\ client_state = NoneOpt
    /\ consensus_states = NoStore
    /\ update_times = NoStore
    /\ update_heights = NoStore
    /\ host_timestamp = 0
    /\ host_height = 0
    /\ \E q \in Queries : last = Call("query", Some(q), "", << >>, << >>)

VerifyMembership ==
    /\ last.op = "query"
    /\ LET q == Unwrap(last.msg)
       IN  last' = Call("verify_membership", last.msg,
                        VerifyMembershipResult(q.proof, q.root, q.key, q.value),
                        << >>, << >>)
    /\ UNCHANGED <<client_state, consensus_states, update_times, update_heights,
                   host_timestamp, host_height>>

VerifyNonMembership ==
    /\ last.op = "query"
    /\ LET q == Unwrap(last.msg)
       IN  last' = Call("verify_non_membership", last.msg,
                        VerifyNonMembershipResult(q.proof, q.root, q.key),
                        << >>, << >>)
    /\ UNCHANGED <<client_state, consensus_states, update_times, update_heights,
                   host_timestamp, host_height>>

NextProof == VerifyMembership \/ VerifyNonMembership

SpecProof == InitProof /\ [][NextProof]_vars

ProofVerified == last.op \in {"verify_membership", "verify_non_membership"}
Q_Proof == Unwrap(last.msg).proof
Q_Root == Unwrap(last.msg).root
\* the hash of the first node of the proof is one of the chunk roots
Q_FirstNodeListed ==
    /\ IsSome(Q_Proof) /\ Len(Unwrap(Q_Proof)) > 0
    /\ IsSome(Q_Root)
    /\ \E i \in DOMAIN Unwrap(Q_Root) :
           Unwrap(Q_Root)[i] = Sha256(Unwrap(Q_Proof)[1])

\* C28 as stated: verify_membership and verify_non_membership succeed if
\* and only if the hash of the proof's first node is a member of the decoded
\* list of chunk roots.
C28_SucceedsIffFirstNodeListed ==
    ProofVerified => ((last.result = Ok) <=> Q_FirstNodeListed)

\* C28: commitment-root interpretation.  verify_membership and
\* verify_non_membership succeed only if the hash of the proof's first node
\* is a member of the decoded list of chunk roots; an empty proof list is
\* rejected with EmptyMerkleProof, and a first-node hash outside the list is
\* rejected with VerificationFailure whatever the proof nodes are, that is,
\* before any of them is decoded or walked.
C28_CommitmentRootInterpretation ==
    ProofVerified =>
        /\ last.result = Ok => Q_FirstNodeListed
        /\ Q_Proof = Some(<< >>) => last.result = ErrEmptyMerkleProof
        /\ (/\ IsSome(Q_Proof) /\ Len(Unwrap(Q_Proof)) > 0
            /\ IsSome(Q_Root)
            /\ ~Q_FirstNodeListed) => last.result = ErrVerificationFailure

\* a proof with a node that does not decode was rejected for its first node
\* alone
C28_Witness ==
    /\ ProofVerified
    /\ last.result = ErrVerificationFailure
    /\ Len(Unwrap(Q_Proof)) = MaxProofLen
    /\ ~NodeDecodes(Unwrap(Q_Proof)[MaxProofLen])
    /\ Len(Unwrap(Q_Root)) > 0

(***************************************************************************)
(* The commitment root of the stored consensus states (SpecRetry).         *)
(***************************************************************************)
\* StateProofOfChunks::try_from_slice(root.as_bytes())
StateProofOfChunksTryFromSlice(bytes) ==
    IF bytes.len = Len(bytes.items) THEN Some(bytes.items) ELSE NoneOpt

\* C29: the commitment root of a stored consensus state is the chunk-root
\* list of its header.  For every consensus state in the store, decoded by
\* initialise or written by update_state, borsh-decoding commitment_root as
\* a list of hashes yields exactly header.prev_state_root_of_chunks of the
\* header stored with it.
C29_CommitmentRootIsChunkRoots ==
    \A k \in Heights :
        IsSome(consensus_states[k]) =>
            StateProofOfChunksTryFromSlice(Unwrap(consensus_states[k]).commitment_root)
                = Some(Unwrap(consensus_states[k]).header.prev_state_root_of_chunks)

\* update_state has written a consensus state next to one whose header has
\* another list of chunk roots
C29_Witness ==
    /\ last.op = "update_state"
    /\ Len(last.writes) >= 3
    /\ \E j, k \in Heights :
           /\ IsSome(consensus_states[j])
           /\ IsSome(consensus_states[k])
           /\ Unwrap(consensus_states[j]).header = Unwrap(last.msg)
           /\ Unwrap(consensus_states[j]).commitment_root
                  # Unwrap(consensus_states[k]).commitment_root

(***************************************************************************)
(* verify_misbehaviour: the client receives one Misbehaviour message for   *)
(* verification.                                                           *)
(***************************************************************************)
\* a verification that starts with header2
VerifyMisbehaviourSecondFirst(cs, css, misbehaviour) ==
    IF VerifyHeader(cs, css, misbehaviour.header2) # Ok
    THEN VerifyHeader(cs, css, misbehaviour.header2)
    ELSE VerifyHeader(cs, css, misbehaviour.header1)

\* verify_misbehaviour
VerifyMisbehaviour(cs, css, misbehaviour) ==
    IF VerifyHeader(cs, css, misbehaviour.header1) # Ok
    THEN VerifyHeader(cs, css, misbehaviour.header1)
    ELSE VerifyHeader(cs, css, misbehaviour.header2)

\* verify_client_message(SubmitMisbehaviour)
VerifySubmittedMisbehaviour(misbehaviour) ==
    /\ IsSome(client_state)
    /\ last' = Call("verify_misbehaviour", Some(misbehaviour),
                    VerifyMisbehaviour(Unwrap(client_state), consensus_states,
                                       misbehaviour),
                    << >>, << >>)
    /\ UNCHANGED <<client_state, consensus_states, update_times, update_heights,
                   host_timestamp, host_height>>

VerifySubmitted ==
    /\ last.op = "submitted"
    /\ VerifySubmittedMisbehaviour(Unwrap(last.msg))

NextVerifyMisbehaviour == VerifySubmitted

SpecVerifyMisbehaviour == InitMisbehaviour /\ [][NextVerifyMisbehaviour]_vars

\* the outcome of verify_header for a header of the verified message
M_Verify(header) == VerifyHeader(Unwrap(client_state), consensus_states, header)
M_Header1 == Unwrap(last.msg).header1
M_Header2 == Unwrap(last.msg).header2
\* the header of the consensus state at latest_height
M_LatestHeader ==
    Unwrap(consensus_states[Unwrap(client_state).latest_height]).header

\* C30: verify_misbehaviour accepts a Misbehaviour message if and only if
\* header1 and header2 each pass verify_header against the consensus state
\* at the client's latest_height; header1 is verified first and its failure
\* is returned whatever header2 is.  So evidence in which either header has
\* a height <= the height of the latest trusted header is rejected.
C30_VerifyMisbehaviour ==
    last.op = "verify_misbehaviour" =>
        /\ (last.result = Ok) <=> (M_Verify(M_Header1) = Ok /\ M_Verify(M_Header2) = Ok)
        /\ M_Verify(M_Header1) # Ok => last.result = M_Verify(M_Header1)
        /\ (\/ M_Header1.height <= M_LatestHeader.height
            \/ M_Header2.height <= M_LatestHeader.height) => last.result # Ok

\* both headers fail, for different reasons, and the error is that of header1
C30_Witness ==
    /\ last.op = "verify_misbehaviour"
    /\ M_Verify(M_Header1) # Ok
    /\ M_Verify(M_Header2) # Ok
    /\ M_Verify(M_Header1) # M_Verify(M_Header2)
    /\ last.result = M_Verify(M_Header1)

(***************************************************************************)
(* The older copy of the core (src/v1)                                     *)
(***************************************************************************)
\* ConsensusState::get_block_producers_of of the older copy
OldGetBlockProducersOf(cs, epoch_id) ==
    IF epoch_id = cs.header.epoch_id THEN cs.current_bps
    ELSE IF epoch_id = cs.header.next_epoch_id THEN cs.header.next_bps
    ELSE NoneOpt

\* the current_bps the older copy's update_state hands to
\* NearConsensusState::new for a header
OldNewCurrentBpsFor(css, header) ==
    LET maybe_prev_cs == PrevConsensusState(css, header.height)
    IN  IF IsSome(maybe_prev_cs)
        THEN OldGetBlockProducersOf(Unwrap(maybe_prev_cs), header.epoch_id)
        ELSE NoneOpt

\* an accepted header for which update_state writes a consensus state
WritesFor(H) ==
    /\ LastAccepted(H)
    /\ UpdateState(H, 0)
    /\ IsNone(consensus_states[H.height])

\* the consensus state the client state's latest_height points at
LatestStored(cs, css) == Unwrap(css[Unwrap(cs).latest_height])

\* C31 (as stated): the two copies differ in current_bps propagation; for the
\* same store and header the consensus state the crates copy writes on
\* update_state does not carry the current_bps the older copy derives.
C31_CopiesWriteDifferentBps ==
    [][ \A H \in RelayHeaders :
            WritesFor(H) =>
                LatestStored(client_state', consensus_states').current_bps #
                    OldNewCurrentBpsFor(consensus_states, H) ]_vars

\* C31 (amended): both copies derive the new consensus state's current_bps
\* from prev_cs.get_block_producers_of(H.epoch_id) (None when there is no
\* previous consensus state); for the same store and header the consensus
\* state the crates copy writes carries exactly the current_bps the older
\* copy derives.
C31_CopiesWriteSameBps ==
    [][ \A H \in RelayHeaders :
            WritesFor(H) =>
                LatestStored(client_state', consensus_states').current_bps =
                    OldNewCurrentBpsFor(consensus_states, H) ]_vars

\* an update_state has written a consensus state that carries propagated
\* block producers
C31_Witness ==
    /\ last.op = "update_state"
    /\ last.writes = StoreWrites
    /\ \E H \in RelayHeaders :
           /\ last.msg = Some(H)
           /\ IsSome(consensus_states[H.height])
           /\ Unwrap(consensus_states[H.height]).header = H
           /\ IsSome(Unwrap(consensus_states[H.height]).current_bps)

FirstTwoGood == [i \in 1..MaxApprovals |-> IF i <= 2 THEN "good" ELSE "none"]

\* the headers relayers submit: blocks of epoch e1 and blocks of epoch e2,
\* with and without the block producers of the following epoch
PipelineHeaders ==
    { MkHeader(h, "e1", "e2", h + d, next_bps, Sha256(Borsh(BpsB)), ChunkRoots,
               Merklize(ChunkRoots), "s1", AllGood) :
        h \in Heights, d \in {0, 1}, next_bps \in {NoneOpt, Some(BpsB)} }
    \cup
    { MkHeader(h, "e2", "e3", h, next_bps, Sha256(Borsh(BpsA)), ChunkRoots,
               Merklize(ChunkRoots), "s1", kinds) :
        h \in Heights, next_bps \in {NoneOpt, Some(BpsA)},
        kinds \in {AllGood, FirstTwoGood} }

\* the consensus states clients are created with
PipelineConsensusStates ==
    { [current_bps |-> bps, header |-> header] :
        bps \in {<< >>, BpsA},
        header \in {H \in PipelineHeaders : H.epoch_id = "e1" /\ H.timestamp = H.height}
                       \cup {LateTrustedHeader} }

\* check_for_misbehaviour returned true for the header that was verified
ReportedMisbehaviour(header) ==
    /\ LastAccepted(header)
    /\ CheckForMisbehaviourUpdateClient(Unwrap(client_state), consensus_states,
                                        header)

UpdateStateChecked ==
    \E header \in PipelineHeaders : PassedChecks(header) /\ UpdateState(header, 0)

UpdateStateOnCheckedMisbehaviour ==
    \E header \in PipelineHeaders :
        ReportedMisbehaviour(header) /\ UpdateStateOnMisbehaviour

NextPipeline ==
    \/ \E cs \in InitClientStates, raw \in PipelineConsensusStates :
           Initialise(cs, raw)
    \/ \E header \in PipelineHeaders : VerifyClientMessage(header)
    \/ UpdateStateChecked
    \/ UpdateStateOnCheckedMisbehaviour

SpecPipeline == Init /\ [][NextPipeline]_vars

\* the header timestamp of the consensus state stored under key h
StoredTimestamp(h) == Unwrap(consensus_states[h]).header.timestamp

InitialiseAtTrustedHeight ==
    \E cs \in InitClientStates, raw \in PipelineConsensusStates :
        /\ raw.header.height = cs.latest_height
        /\ Initialise(cs, raw)

UpdateStateVerified ==
    \E header \in PipelineHeaders : LastAccepted(header) /\ UpdateState(header, 0)

NextTrusted ==
    \/ InitialiseAtTrustedHeight
    \/ \E header \in PipelineHeaders : VerifyClientMessage(header)
    \/ UpdateStateVerified

SpecTrusted == Init /\ [][NextTrusted]_vars

\* the consensus state at latest_height was written by update_state
LatestWrittenByUpdateState ==
    /\ IsSome(client_state)
    /\ IsSome(update_times[Unwrap(client_state).latest_height])

FailedAtStoreClientState(H) ==
    /\ JustFailed(H)
    /\ last.writes = SubSeq(StoreWrites, 1, Len(StoreWrites) - 1)

RetryUpdateState ==
    \E header \in Headers :
        FailedAtStoreClientState(header) /\ UpdateState(header, 0)

NextConverge ==
    \/ \E cs \in InitClientStates, raw \in RetryConsensusStates : Initialise(cs, raw)
    \/ \E header \in Headers : VerifyClientMessage(header)
    \/ UpdateStateWithFailures
    \/ RetryUpdateState

SpecConverge == Init /\ [][NextConverge]_vars

\* the client state a failure-free update_state(H) stores
FailureFreeClientState(H) ==
    NewClientStateFor(Unwrap(client_state), [header |-> H], H)

\* C36: convergence after partial failure.  When update_state(H) persisted
\* the consensus state for H and failed at store_client_state, a retry of
\* update_state(H) that returns Ok leaves the store a failure-free
\* update_state(H) would have produced: the update time, update height and
\* consensus state already written, and a client state with latest_timestamp
\* = H.timestamp and latest_height raised to H.height.
C36_ConvergenceAfterPartialFailure ==
    [][ \A H \in Headers :
            (/\ FailedAtStoreClientState(H)
             /\ UpdateState(H, 0)
             /\ last'.result = Ok) =>
                /\ client_state' = Some(FailureFreeClientState(H))
                /\ Unwrap(client_state').latest_timestamp = H.timestamp
                /\ Unwrap(client_state').latest_height >= H.height
                /\ consensus_states' = consensus_states
                /\ update_times' = update_times
                /\ update_heights' = update_heights ]_vars

\* C37: no approval, no acceptance.  verify_header rejects every header whose
\* zipped approval/block-producer list is empty (approvals_after_next is
\* empty, or the epoch's block-producer list is Some(empty)) and every header
\* in which no paired approval slot carries a signature: with approved_stake
\* = 0 the stake check approved_stake * 3 <= total_stake * 2 holds, so a
\* header that got past the age, epoch and next_bps checks is rejected with
\* 'Insufficient approved stake in header.'.
C37_NoApprovalNoAcceptance ==
    (/\ VerifyCalled /\ V_HasLatest /\ IsSome(V_EpochBps)
     /\ SignedSlots(V_Header, Unwrap(V_EpochBps)) = {}) =>
        /\ V_Result # Ok
        /\ V_Result \notin {ErrTooOld, ErrInvalidEpoch, ErrMissingNextBps} =>
               V_Result = ErrInsufficientStake

\* a header with three signed approval slots is rejected because the block
\* producer list of its epoch is Some(empty)
C37_Witness ==
    /\ VerifyCalled
    /\ V_HasLatest
    /\ V_EpochBps = Some(<< >>)
    /\ Len(V_Header.approvals_after_next) = MaxApprovals
    /\ \A i \in DOMAIN V_Header.approvals_after_next :
           V_Header.approvals_after_next[i] =
               Some(GoodSignature(KeyOf[i], V_Header))
    /\ V_Result = ErrInsufficientStake

\* a consensus state was submitted and its Any decoded
D_DecodedConsensusState ==
    /\ last.op = "round_trip"
    /\ Unwrap(last.msg).kind = "ConsensusState"
    /\ Returned(last.result)

\* C38: the empty-root rejection of initialise and verify_consensus_state
\* cannot trigger for a decoded consensus state.  Every consensus state
\* obtained by decoding an Any has commitment_root =
\* borsh(header.prev_state_root_of_chunks), at least the 4-byte length prefix
\* and so never empty, also when the header has no chunk roots; and
\* verify_consensus_state never returns 'empty commitment root'.
C38_DecodedRootNeverEmpty ==
    /\ D_DecodedConsensusState =>
           LET cs == Unwrap(last.result.value)
           IN  /\ cs.commitment_root = Borsh(cs.header.prev_state_root_of_chunks)
               /\ BorshSize(cs.commitment_root) >= 4
               /\ ~RootIsEmpty(cs)
    /\ last.op = "verify_consensus_state" => last.result.error # ErrEmptyRoot

\* verify_consensus_state accepted the consensus state of a header without
\* chunk roots
C38_Witness ==
    /\ last.op = "verify_consensus_state"
    /\ Returned(last.result)
    /\ Unwrap(last.msg).value.header.prev_state_root_of_chunks = << >>

\* verify_header ran on a header of the epoch that follows the epoch of the
\* last accepted header L (the header update_state stored at latest_height)
V_RotationAfterAccepted ==
    /\ VerifyCalled
    /\ LatestWrittenByUpdateState
    /\ V_LatestHeader.next_epoch_id # V_LatestHeader.epoch_id
    /\ V_Header.epoch_id = V_LatestHeader.next_epoch_id

\* C39 (as stated): after the client accepted a header L with next_bps = None
\* and next_epoch_id # epoch_id, every header H of the epoch L.next_epoch_id
\* is rejected by verify_header with 'missing epoch block producers'.
C39_RotationRejectedAsMissingEpochBps ==
    (V_RotationAfterAccepted /\ IsNone(V_LatestHeader.next_bps)) =>
        V_Result = ErrMissingEpochBps

\* C39 (amended): epoch rotation depends on the last accepted header carrying
\* next_bps.  While the last accepted header L has next_bps = None and
\* next_epoch_id # epoch_id, every header H of the epoch L.next_epoch_id is
\* rejected: with 'Header is too old.' when H.height <= L.height, else with
\* 'Missing next block producers in header.' when H carries no next_bps, else
\* with 'missing epoch block producers'.  When L has next_bps = Some(list), a
\* header of the next epoch is verified against exactly that list: the stake
\* check compares the stake of its signed slots with the stake of its paired
\* slots in list.
C39_RotationDependsOnNextBps ==
    V_RotationAfterAccepted =>
        IF IsNone(V_LatestHeader.next_bps)
        THEN V_Result =
                 IF V_TooOld THEN ErrTooOld
                 ELSE IF IsNone(V_Header.next_bps) THEN ErrMissingNextBps
                 ELSE ErrMissingEpochBps
        ELSE LET list == Unwrap(V_LatestHeader.next_bps)
             IN  /\ V_EpochBps = Some(list)
                 /\ V_Result # ErrMissingEpochBps
                 /\ V_ReachedStakeCheck =>
                        ((V_Result = ErrInsufficientStake) <=>
                            (3 * StakeOf(list, SignedSlots(V_Header, list))
                                 <= 2 * StakeOf(list, PairedSlots(V_Header, list))))

\* a header of the next epoch that carries next_bps is rejected because the
\* last accepted header carried none
C39_Witness ==
    /\ V_RotationAfterAccepted
    /\ IsNone(V_LatestHeader.next_bps)
    /\ IsSome(V_Header.next_bps)
    /\ V_Result = ErrMissingEpochBps

\* a header of the next epoch is accepted on approvals that are more than 2/3
\* of the stake of the list the last accepted header carried and not of the
\* current block producers
C39_VerifiedAgainstCarriedList ==
    /\ V_RotationAfterAccepted
    /\ V_LatestHeader.next_bps = Some(BpsB)
    /\ V_Latest.current_bps = Some(BpsA)
    /\ SignedSlots(V_Header, BpsA) = {1, 2}
    /\ V_Result = Ok

=============================================================================
